---- MODULE Spec2Model ----
(***************************************************************************)
(* Job queue, worker and dead-letter list of the vulnerability pipeline    *)
(* (worker.py, query_api/app/redis_ops.py), and the query gateway with the *)
(* store it shares with a pipeline run (query_api/app/service.py,          *)
(* query_api/app/repository.py, agent_orchestrator.py).                    *)
(***************************************************************************)
EXTENDS Integers, Sequences, FiniteSets, TLC

\* ------------------------------------------------------------------ bounds
NumWorkers == 2
MaxJobs == 2

MaxCves == 2
MaxRuns == 1

Workers == 1..NumWorkers
JobIds == 1..MaxJobs
CveIds == 1..MaxCves

\* worker.py:73  max_connection_retries = 5
max_connection_retries == 5

\* query_api/app/service.py:19-20  seconds between polls, total seconds to
\* wait (2.0 and 120.0 in the source; every sum of intervals is exact)
ANALYSIS_POLL_INTERVAL == 2
ANALYSIS_MAX_WAIT_TIME == 120

None == [kind |-> "none", pairs |-> <<>>, spacing |-> "none"]

\* ------------------------------------------------------------ JSON texts
\* A payload text on a Redis list.  kind "object" is the text of a JSON
\* object whose members are `pairs` in textual order; kind "array" is the
\* text of a JSON array; kind "invalid" is text json.loads rejects.
\* spacing is the separator style of the text: json.dumps writes "default"
\* (", " and ": "); a hand-written text may be "compact".
ObjectText(pairs, spacing) == [kind |-> "object", pairs |-> pairs, spacing |-> spacing]

\* redis_ops.py:90-98  the payload submit_analysis_job serialises
SubmittedJobText ==
    ObjectText(<< <<"package", "lodash">>, <<"version", "latest">>,
                  <<"force", "false">>, <<"source", "web_query">> >>, "default")

\* tests/test_regression.py:251  bad_task = {"invalid": "task"}
InvalidTaskText == ObjectText(<< <<"invalid", "task">> >>, "default")

\* a dead-letter record put back on analysis_tasks by an operator: the job
\* above with the error fields of its earlier failure
ReplayedJobText ==
    ObjectText(<< <<"package", "lodash">>, <<"version", "latest">>,
                  <<"error_msg", "earlier failure">> >>, "compact")

\* text that is not JSON, and JSON that is not an object
GarbageText == [kind |-> "invalid", pairs |-> <<>>, spacing |-> "compact"]
ArrayText == [kind |-> "array", pairs |-> <<>>, spacing |-> "compact"]

PayloadTexts == {SubmittedJobText, InvalidTaskText, ReplayedJobText, GarbageText, ArrayText}

\* json.loads: the parsed value, or a JSONDecodeError.  A dict keeps its
\* members in order; the separator style of the text is gone.
JsonDecodes(text) == text.kind \in {"object", "array"}
json_loads(text) ==
    IF text.kind = "object" THEN [type |-> "dict", items |-> text.pairs]
    ELSE [type |-> "list", items |-> <<>>]

\* json.dumps of a dict: members in dict order, default separators
json_dumps(value) == ObjectText(value.items, "default")

\* dict.get(key): the value, or "" for None (both are falsy in Python)
HasKey(items, key) == \E i \in 1..Len(items) : items[i][1] = key
DictGet(items, key) ==
    IF HasKey(items, key)
    THEN LET i == CHOOSE i \in 1..Len(items) : items[i][1] = key IN items[i][2]
    ELSE ""

\* d[key] = value: replaces the value in place, or appends a new member
DictSet(items, key, value) ==
    IF HasKey(items, key)
    THEN [i \in 1..Len(items) |->
            IF items[i][1] = key THEN <<key, value>> ELSE items[i]]
    ELSE Append(items, <<key, value>>)

\* ------------------------------------------------------------ process_task
\* agent_orchestrator.py:168-175  the parameters of orchestrate_pipeline
OrchestratePipelineParams ==
    {"package", "version_range", "skip_threat_agent", "force", "progress_cb"}

\* worker.py:49-57  the keyword arguments process_task passes
ProcessTaskCallKwargs ==
    {"package", "version_range", "skip_threat_agent", "force", "progress_cb",
     "ecosystem", "cve_id"}

\* Python binds keyword arguments at the call: an unexpected keyword raises
\* TypeError before the coroutine is created
CallBinds(kwargs, params) == kwargs \subseteq params

\* worker.py:27-66  process_task: what one call ends with.
\*   "completed"       orchestrate_pipeline was awaited and returned
\*   "returned"        the early return of line 39 (no package, no cve_id)
\*   anything else     the exception it re-raises (lines 60-66)
process_task(task_json) ==
    IF ~JsonDecodes(task_json) THEN "JSONDecodeError"
    ELSE LET task == json_loads(task_json) IN
         IF task.type # "dict" THEN "AttributeError"
         ELSE IF DictGet(task.items, "package") = "" /\ DictGet(task.items, "cve_id") = ""
              THEN "returned"
         ELSE IF ~CallBinds(ProcessTaskCallKwargs, OrchestratePipelineParams)
              THEN "TypeError"
         ELSE "completed"

Raised(outcome) == outcome \in {"JSONDecodeError", "AttributeError", "TypeError"}

\* str(e) of the exception process_task raised
ErrorStr(outcome) ==
    CASE outcome = "JSONDecodeError" -> "Expecting value: line 1 column 1 (char 0)"
      [] outcome = "AttributeError" -> "'list' object has no attribute 'get'"
      [] outcome = "TypeError" -> "got an unexpected keyword argument 'ecosystem'"
      [] OTHER -> ""

\* worker.py:139-148  the payload pushed to the dead-letter list
BuildFailedPayload(task_json, outcome) ==
    IF ~JsonDecodes(task_json) THEN task_json
    ELSE LET failed_task == json_loads(task_json) IN
         IF failed_task.type # "dict" THEN task_json
         ELSE json_dumps([failed_task EXCEPT !.items =
                DictSet(DictSet(DictSet(@, "error_msg", ErrorStr(outcome)),
                                "error_timestamp", "loop.time()"),
                        "error_traceback", "traceback.format_exc()")])

\* ------------------------------------------------------------------ state
VARIABLES
    redisUp,        \* the Redis server is reachable
    queue,          \* the list analysis_tasks: records [id, text]
    failed,         \* the list analysis_tasks:failed: records [id, text]
    pc,             \* pc[w]: where worker w is in worker()
    attempt,        \* attempt[w]: loop variable of the connection retries
    stop_event,     \* stop_event[w]: the asyncio.Event set by the signal handler
    task_json,      \* task_json[w]: the job worker w popped, [id, text]
    failed_payload, \* failed_payload[w]: the text it is about to dead-letter
    enqueued,       \* history: enqueued[j], the text pushed as the j-th job
    delivered,      \* history: <<job id, worker>> in the order blpop returned them
    result,         \* history: result[j], what process_task ended with for job j
    cancelled,      \* history: cancelled[w], a CancelledError reached worker w
    signal_task,    \* history: signal_task[w], the job w held when the signal came
    \* the store (PostgreSQL), committed rows for the package "lodash"
    dbMapping,      \* package_cve_mapping.cve_ids of the package (empty: no row)
    dbEpss,         \* CVE ids with a row in epss_scores
    dbCvss,         \* CVE ids with a row in cvss_scores
    dbAnalysis,     \* CVE ids with a row in analysis_results
    \* one run of AgentOrchestrator.orchestrate_pipeline
    p_pc,           \* where the run is
    p_session,      \* get_session() yielded a session (FALSE: None, no persistence)
    p_cves,         \* cve_ids, the ids the mapping stage resolved
    p_index,        \* position of the per-CVE loop in cve_ids
    txEpss,         \* epss_scores rows written in the session, not yet committed
    runs,           \* pipeline runs started so far
    \* one call of QueryService.query
    q_pc,           \* where the call is
    q_req,          \* its arguments [package, cve_id, force]
    q_submit,       \* what its call of submit_analysis_job ended with
    q_response,     \* the QueryResponse it built: [present, rows]
    q_outcome,      \* how it ended: "response" or the exception raised
    qcache,         \* the response cache in Redis, by cache key
    q_lookup,       \* history: what the lookup of the normal path reported
    q_stale,        \* history: what a forced delete left behind: [cache, epss, cvss, analysis]
    elapsed,        \* elapsed of _poll_for_analysis_results, in seconds
    poll_error,     \* history: a poll raised an error other than ResourceNotFound
    \* one call of orchestrate_pipeline as its caller sees it
    o_pc,           \* where the call is
    o_session,      \* session: get_session() yielded a session (FALSE: None)
    o_skip,         \* skip_threat_agent
    o_cves,         \* cve_ids
    o_epss,         \* epss_results: CVE id -> record, as far as fetched
    o_cvss,         \* cvss_results: CVE id -> record, as far as fetched
    o_index,        \* position of the per-CVE loop in cve_ids
    o_threat,       \* threat_response of the current CVE
    o_analysis,     \* analysis_output of the current CVE
    o_results,      \* pipeline_results
    o_error,        \* the exception that left the session block ("none": none)
    o_raised,       \* history: the stages whose service call raised
    o_force,        \* force
    o_cb,           \* progress_cb: the call site at which it raises ("none": never)
    e_pc,           \* where _epss_agent is
    e_cached,       \* its local cached: [present, value]
    e_missing,      \* its local missing_ids
    c_pc,           \* where _cvss_agent is
    c_cached,       \* its local cached
    c_missing,      \* its local missing_ids
    o_calls,        \* history: the external calls of this call, <<stage, CVE id>>
    o_backend,      \* history: its requests to the cache backend, <<op, stage, CVE id>>
    \* the AsyncCache of the orchestrator and its entries in Redis
    cache_disabled, \* AsyncCache._disabled
    cache_failed,   \* history: a request to the cache backend failed
    cache,          \* the entries of the package: mapping, epss, cvss, threat, analysis
    \* one AsyncCache and the key its caller sets (common_lib/cache.py)
    ac_pc,          \* where the call of set is
    ac_value,       \* value
    ac_payload,     \* payload, the text json.dumps returned
    ac_disabled,    \* _disabled
    ac_entry,       \* what Redis holds under the key ("absent": nothing)
    ac_before,      \* history: [entry, disabled] when set was called
    ac_error,       \* the exception that left set ("none": none)
    ac_trace,       \* history: what the call did: "get_redis", "dumps", "redis_set"
    \* one call of EPSSService.fetch_score or CVSSService.fetch_score
    f_pc,           \* where the call is
    f_service,      \* the service called: "EPSS" or "CVSS" ("none": no call)
    f_allow,        \* _allow_external of the CVSS service
    f_id,           \* cve_id, as the parts of its text
    f_attempt,      \* attempt, the loop variable
    f_requests,     \* history: the calls of the external clients, in order
    f_nvd,          \* history: what the NVD requests ended with, in order
    f_result,       \* the record returned: [source, score]
    \* one call through the retry policy (common_lib/retry_config.py)
    r_pc,           \* where the call is
    r_target,       \* what the policy wraps: "plain" or "GPT5Client.chat"
    r_script,       \* what the HTTP requests of the call end with, in order
    r_attempts,     \* attempt_number: the attempts made
    r_error,        \* the exception the call raised ("none": none)
    \* one analysis of a pipeline item (analyzer/app/service.py)
    an_pc,          \* where the analysis is
    an_payload,     \* the AnalyzerInput: [cvss_score, epss_score]
    an_output,      \* the AnalyzerOutput: [risk_level, risk_score, source]
    an_item,        \* the "analysis" of the item appended to the results
    an_error,       \* the exception that left the pipeline ("none": none)
    \* two runs of a batch stage (_epss_agent or _cvss_agent) on one cache key
    bt_pc,          \* per run: "idle", "get", "fetch", "set", "returned"
    bt_cve_list,    \* per run: cve_list
    bt_force,       \* per run: force
    bt_cached,      \* per run: cached, [hit, ids]; no hit is None
    bt_results,     \* per run: the CVE ids that are keys of epss_results
    bt_missing_ids, \* per run: missing_ids not fetched yet
    bt_stored,      \* history, per run: the ids of the map the run has set
    bt_overlap,     \* history: a run was called while the other one was running
    bt_cache,       \* the value under cache_key in Redis, [hit, ids]
    \* QueryService._prioritize on its own
    pr_pc,          \* "idle", "prioritize", "returned"
    pr_results,     \* the argument: the rows of the lookup
    pr_prioritized, \* the list returned
    \* get_redis and close_redis called by concurrent coroutines
    gr_pc,          \* per coroutine: where it is in get_redis or close_redis
    gr_redis_pool,  \* _redis_pool: 0 is None, else the connection
    gr_lock,        \* _lock: 0 is free, else the coroutine that holds it
    gr_received,    \* per coroutine: what get_redis returned, 0 for nothing
    gr_closing,     \* per coroutine: the connection close_redis is closing
    gr_saw_none,    \* history, per coroutine: the first check found no connection
    gr_next,        \* the connection the next successful from_url returns
    gr_epoch,       \* history since the last reset: [invoked, created, handed]
    \* get_redis_client and close_redis_client (query_api/app/redis_ops.py)
    gc_pc,          \* per caller: "idle", "ping", "returned"
    gc_redis_client,\* _redis_client: 0 is None, else the client
    gc_returned,    \* per caller: what get_redis_client returned, 0 is None
    gc_pinging,     \* per caller: the client whose ping is awaited
    gc_pinged,      \* history: the clients whose ping has succeeded
    gc_next         \* the client the next from_url returns

storeVars == <<dbMapping, dbEpss, dbCvss, dbAnalysis>>
pipelineVars == <<p_pc, p_session, p_cves, p_index, txEpss, runs>>
pollVars == <<elapsed, poll_error>>
queryVars == <<q_pc, q_req, q_submit, q_response, q_outcome, qcache, q_lookup, q_stale,
              pollVars>>
stageVars == <<o_pc, o_session, o_skip, o_force, o_cb, o_cves, e_pc, e_cached, e_missing,
               o_epss, c_pc, c_cached, c_missing, o_cvss, o_index, o_threat, o_analysis,
               o_results, o_error, o_raised, o_calls, o_backend>>
cacheVars == <<cache_disabled, cache_failed, cache>>
setVars == <<ac_pc, ac_value, ac_payload, ac_disabled, ac_entry, ac_before, ac_error,
             ac_trace>>
fetchVars == <<f_pc, f_service, f_allow, f_id, f_attempt, f_requests, f_nvd, f_result>>
retryVars == <<r_pc, r_target, r_script, r_attempts, r_error>>
analyzeVars == <<an_pc, an_payload, an_output, an_item, an_error>>
batchVars == <<bt_pc, bt_cve_list, bt_force, bt_cached, bt_results, bt_missing_ids, bt_stored, bt_overlap, bt_cache>>
prioritizeVars == <<pr_pc, pr_results, pr_prioritized>>
poolVars == <<gr_pc, gr_redis_pool, gr_lock, gr_received, gr_closing, gr_saw_none, gr_next, gr_epoch>>
clientVars == <<gc_pc, gc_redis_client, gc_returned, gc_pinging, gc_pinged, gc_next>>
unitVars == <<setVars, fetchVars, retryVars, analyzeVars, batchVars, prioritizeVars, poolVars, clientVars>>
gatewayVars == <<storeVars, pipelineVars, queryVars, stageVars, cacheVars, unitVars>>
workerVars == <<failed, pc, attempt, stop_event, task_json, failed_payload,
                delivered, result, cancelled, signal_task>>

vars == <<redisUp, queue, enqueued, workerVars, gatewayVars>>

NoTask == [id |-> 0, text |-> None]

NoResponse == [present |-> FALSE, rows |-> {}]
NoRequest == [package |-> "", cve_id |-> 0, force |-> FALSE]
CacheKeys == {"package", "cve"}

\* no record of a stage
NoRecord == [cve_id |-> 0, source |-> "none"]
NoAnalysis == [cve_id |-> 0, source |-> "none", epss |-> NoRecord, cvss |-> NoRecord,
               cases |-> NoRecord]

\* no cache entry, and a cache without entries
NoEntry == [present |-> FALSE, value |-> <<>>]
EmptyCache ==
    [mapping |-> NoEntry, epss |-> NoEntry, cvss |-> NoEntry, threat |-> <<>>,
     analysis |-> <<>>]

\* nothing in the cache or the store dates from before a forced delete
NothingStale == [cache |-> {}, epss |-> {}, cvss |-> {}, analysis |-> {}]

\* orchestrate_pipeline has not been called
InitStage ==
    /\ o_pc = "idle"
    /\ o_session = FALSE
    /\ o_skip = FALSE
    /\ o_force = FALSE
    /\ o_cb = "none"
    /\ o_cves = <<>>
    /\ e_pc = "idle"
    /\ e_cached = NoEntry
    /\ e_missing = <<>>
    /\ c_pc = "idle"
    /\ c_cached = NoEntry
    /\ c_missing = <<>>
    /\ o_calls = {}
    /\ o_backend = {}
    /\ o_epss = <<>>
    /\ o_cvss = <<>>
    /\ o_index = 0
    /\ o_threat = NoRecord
    /\ o_analysis = NoAnalysis
    /\ o_results = <<>>
    /\ o_error = "none"
    /\ o_raised = {}

\* an empty store, no pipeline run and no query under way, an empty cache
InitGatewayAt(at, req) ==
    /\ dbMapping = {}
    /\ dbEpss = {}
    /\ dbCvss = {}
    /\ dbAnalysis = {}
    /\ p_pc = "idle"
    /\ p_session = FALSE
    /\ p_cves = <<>>
    /\ p_index = 0
    /\ txEpss = {}
    /\ runs = 0
    /\ q_pc = at
    /\ q_req = req
    /\ q_submit = "none"
    /\ q_response = NoResponse
    /\ q_outcome = "none"
    /\ qcache = [k \in CacheKeys |-> NoResponse]
    /\ q_lookup = "none"
    /\ q_stale = NothingStale
    /\ elapsed = 0
    /\ poll_error = FALSE
    /\ InitStage

\* common_lib/cache.py:73  the AsyncCache as constructed: disabled when
\* settings.enable_cache is off; the entries Redis holds for the package
InitCache(enabled, entries) ==
    /\ cache_disabled = ~enabled
    /\ cache_failed = FALSE
    /\ cache \in entries

InitGateway == InitGatewayAt("idle", NoRequest) /\ InitCache(FALSE, {EmptyCache})

\* The state in which the worker processes in `started` are at `at` and no
\* other worker was launched.
InitWorkerAt(started, at) ==
    /\ redisUp \in (IF at = "connect" THEN BOOLEAN ELSE {TRUE})
    /\ queue = <<>>
    /\ failed = <<>>
    /\ pc = [w \in Workers |-> IF w \in started THEN at ELSE "absent"]
    /\ attempt = [w \in Workers |-> IF w \in started /\ at = "connect" THEN 1 ELSE 0]
    /\ stop_event = [w \in Workers |-> FALSE]
    /\ task_json = [w \in Workers |-> NoTask]
    /\ failed_payload = [w \in Workers |-> None]
    /\ enqueued = <<>>
    /\ delivered = <<>>
    /\ result = [j \in JobIds |-> "none"]
    /\ cancelled = [w \in Workers |-> FALSE]
    /\ signal_task = [w \in Workers |-> 0]

\* No call of AsyncCache.set is under way; the cache is enabled and the key
\* has no entry.
InitSet ==
    /\ ac_pc = "idle"
    /\ ac_value = "none"
    /\ ac_payload = "none"
    /\ ac_disabled = FALSE
    /\ ac_entry = "absent"
    /\ ac_before = [entry |-> "absent", disabled |-> FALSE]
    /\ ac_error = "none"
    /\ ac_trace = {}

\* an identifier text: a prefix, a year of `year` digits, "-", a number of
\* `number` digits, and what follows
NoId == [prefix |-> "", year |-> 0, number |-> 0, digits |-> "", tail |-> ""]
NoScore == [source |-> "none", score |-> "none"]

\* no call of fetch_score is under way
InitFetch ==
    /\ f_pc = "idle"
    /\ f_service = "none"
    /\ f_allow = TRUE
    /\ f_id = NoId
    /\ f_attempt = 0
    /\ f_requests = <<>>
    /\ f_nvd = <<>>
    /\ f_result = NoScore

\* an exception: its class and, for an HTTPStatusError, the status
NoError == [type |-> "none", status |-> 0]

\* no call through the retry policy is under way
InitRetry ==
    /\ r_pc = "idle"
    /\ r_target = "none"
    /\ r_script = <<>>
    /\ r_attempts = 0
    /\ r_error = NoError

\* analyzer/app/models.py:16-17  a score that is None
NoneScore == -1

\* no AnalyzerOutput
NoOutput == [risk_level |-> "none", risk_score |-> 0, source |-> "none"]

\* no analysis is under way
InitAnalyze ==
    /\ an_pc = "idle"
    /\ an_payload = [cvss_score |-> NoneScore, epss_score |-> NoneScore]
    /\ an_output = NoOutput
    /\ an_item = NoOutput
    /\ an_error = "none"

\* the two runs of a batch stage that may be in progress at once
BatchRuns == {1, 2}

\* cached is None: nothing under the key
NoneCached == [hit |-> FALSE, ids |-> {}]

\* no batch stage is running and nothing is cached under the key
InitBatch ==
    /\ bt_pc = [r \in BatchRuns |-> "idle"]
    /\ bt_cve_list = [r \in BatchRuns |-> {}]
    /\ bt_force = [r \in BatchRuns |-> FALSE]
    /\ bt_cached = [r \in BatchRuns |-> NoneCached]
    /\ bt_results = [r \in BatchRuns |-> {}]
    /\ bt_missing_ids = [r \in BatchRuns |-> {}]
    /\ bt_stored = [r \in BatchRuns |-> {}]
    /\ bt_overlap = FALSE
    /\ bt_cache = NoneCached

\* _prioritize is not running
InitPrioritize ==
    /\ pr_pc = "idle"
    /\ pr_results = <<>>
    /\ pr_prioritized = <<>>

\* the coroutines of one event loop that use the shared connection
Coroutines == {1, 2, 3}

\* nothing has happened since _redis_pool was last None
NewEpoch == [invoked |-> 0, created |-> {}, handed |-> {}]

\* common_lib/cache.py:23-24  _redis_pool = None, _lock = asyncio.Lock()
InitPool ==
    /\ gr_pc = [c \in Coroutines |-> "idle"]
    /\ gr_redis_pool = 0
    /\ gr_lock = 0
    /\ gr_received = [c \in Coroutines |-> 0]
    /\ gr_closing = [c \in Coroutines |-> 0]
    /\ gr_saw_none = [c \in Coroutines |-> FALSE]
    /\ gr_next = 1
    /\ gr_epoch = NewEpoch

\* the requests of the API that may be in get_redis_client at once
Callers == {1, 2}

\* query_api/app/redis_ops.py:13  _redis_client = None
InitClient ==
    /\ gc_pc = [c \in Callers |-> "idle"]
    /\ gc_redis_client = 0
    /\ gc_returned = [c \in Callers |-> 0]
    /\ gc_pinging = [c \in Callers |-> 0]
    /\ gc_pinged = {}
    /\ gc_next = 1

\* the components checked on their own are at rest
InitUnits == InitSet /\ InitFetch /\ InitRetry /\ InitAnalyze /\ InitBatch /\ InitPrioritize /\ InitPool /\ InitClient

InitWith(started, at) == InitGateway /\ InitWorkerAt(started, at) /\ InitUnits

\* worker.py:177-179  one worker process was launched: asyncio.run(worker())
Init == InitWith({1}, "connect")

\* worker.py:104  NumWorkers worker processes have connected and are
\* "ready and watching queue"
InitWorkers == InitWith(Workers, "loop")

\* ------------------------------------------------------------ environment
\* the Redis server becomes unreachable / reachable again
RedisGoesDown ==
    /\ redisUp
    /\ redisUp' = FALSE
    /\ UNCHANGED <<queue, failed, pc, attempt, stop_event, task_json,
                   failed_payload, enqueued, delivered, result, cancelled, signal_task>>
    /\ UNCHANGED gatewayVars

RedisComesBack ==
    /\ ~redisUp
    /\ redisUp' = TRUE
    /\ UNCHANGED <<queue, failed, pc, attempt, stop_event, task_json,
                   failed_payload, enqueued, delivered, result, cancelled, signal_task>>
    /\ UNCHANGED gatewayVars

\* (mutant) LPUSH: the element goes to the head of the list
lpush(list, element) == <<element>> \o list

\* RPUSH: append at the tail of a list
rpush(list, element) == Append(list, element)

\* redis_ops.py:101, inject_task.py:16  a producer pushes a job text
Enqueue(text) ==
    /\ redisUp
    /\ Len(enqueued) < MaxJobs
    /\ LET id == Len(enqueued) + 1 IN
        /\ queue' = rpush(queue, [id |-> id, text |-> text])
        /\ enqueued' = Append(enqueued, text)
    /\ UNCHANGED <<redisUp, failed, pc, attempt, stop_event, task_json,
                   failed_payload, delivered, result, cancelled, signal_task>>
    /\ UNCHANGED gatewayVars

\* ----------------------------------------------------------------- worker
\* (mutant) no retry: the first failed attempt ends the worker
GiveUpAtOnce(n) == "exited"

\* worker.py:80-85  a failed connection attempt: give up at the last one
\* (return), otherwise sleep and try again
AfterConnectFailure(n) ==
    IF n = max_connection_retries THEN "exited" ELSE "connect_sleep"

\* worker.py:74-85  one connection attempt: from_url + ping
Connect(w) ==
    /\ pc[w] = "connect"
    /\ IF redisUp
       THEN pc' = [pc EXCEPT ![w] = "loop"]
       ELSE pc' = [pc EXCEPT ![w] = AfterConnectFailure(attempt[w])]
    \* attempt is not read once the retry loop is left
    /\ attempt' = [attempt EXCEPT ![w] = IF pc'[w] = "loop" THEN 0 ELSE @]
    /\ UNCHANGED <<redisUp, queue, failed, stop_event, task_json,
                   failed_payload, enqueued, delivered, result, cancelled, signal_task>>
    /\ UNCHANGED gatewayVars

\* worker.py:85  asyncio.sleep(5), then the next attempt
ConnectSleep(w) ==
    /\ pc[w] = "connect_sleep"
    /\ attempt' = [attempt EXCEPT ![w] = @ + 1]
    /\ pc' = [pc EXCEPT ![w] = "connect"]
    /\ UNCHANGED <<redisUp, queue, failed, stop_event, task_json,
                   failed_payload, enqueued, delivered, result, cancelled, signal_task>>
    /\ UNCHANGED gatewayVars

\* worker.py:93-99  SIGTERM/SIGINT once the handlers are installed
HandlersInstalled(w) ==
    pc[w] \in {"loop", "blpop", "process", "dlq_push", "redis_error_sleep",
               "redis_ping", "close"}

Signal(w) ==
    /\ HandlersInstalled(w)
    /\ ~stop_event[w]
    /\ stop_event' = [stop_event EXCEPT ![w] = TRUE]
    /\ signal_task' = [signal_task EXCEPT ![w] = task_json[w].id]
    /\ UNCHANGED <<redisUp, queue, failed, pc, attempt, task_json,
                   failed_payload, enqueued, delivered, result, cancelled>>
    /\ UNCHANGED gatewayVars

\* worker.py:118  while not stop_event.is_set()
LoopHead(w) ==
    /\ pc[w] = "loop"
    /\ pc' = [pc EXCEPT ![w] = IF stop_event[w] THEN "close" ELSE "blpop"]
    /\ UNCHANGED <<redisUp, queue, failed, attempt, stop_event, task_json,
                   failed_payload, enqueued, delivered, result, cancelled, signal_task>>
    /\ UNCHANGED gatewayVars

\* (mutant) a RedisError that is not handled inside the loop ends it
RedisErrorEndsLoop(w) == "close"

\* worker.py:156-166  except redis.RedisError: where the loop goes next
AfterRedisError(w) == IF stop_event[w] THEN "loop" ELSE "redis_error_sleep"

\* (mutant) a read of the head that leaves it on the list (LINDEX 0)
PeekRemaining(list) == list

\* BLPOP: the head leaves the list in the same step that returns it
BlpopRemaining(list) == Tail(list)

\* worker.py:124-128  result = await r.blpop(ANALYSIS_QUEUE_KEY, timeout=2)
Blpop(w) ==
    /\ pc[w] = "blpop"
    /\ IF ~redisUp
       THEN /\ pc' = [pc EXCEPT ![w] = AfterRedisError(w)]
            /\ UNCHANGED <<queue, task_json, delivered>>
       ELSE IF queue = <<>>
            THEN /\ pc' = [pc EXCEPT ![w] = "loop"]
                 /\ UNCHANGED <<queue, task_json, delivered>>
            ELSE /\ task_json' = [task_json EXCEPT ![w] = Head(queue)]
                 /\ queue' = BlpopRemaining(queue)
                 /\ delivered' = Append(delivered, <<Head(queue).id, w>>)
                 /\ pc' = [pc EXCEPT ![w] = "process"]
    /\ UNCHANGED <<redisUp, failed, attempt, stop_event, failed_payload,
                   enqueued, result, cancelled, signal_task>>
    /\ UNCHANGED gatewayVars

\* worker.py:131-148  await process_task(...); on an exception build the
\* dead-letter payload
ProcessTask(w) ==
    /\ pc[w] = "process"
    /\ LET outcome == process_task(task_json[w].text) IN
        /\ result' = [result EXCEPT ![task_json[w].id] = outcome]
        /\ IF Raised(outcome)
           THEN /\ failed_payload' = [failed_payload EXCEPT ![w] =
                        BuildFailedPayload(task_json[w].text, outcome)]
                /\ pc' = [pc EXCEPT ![w] = "dlq_push"]
                /\ UNCHANGED task_json
           ELSE /\ pc' = [pc EXCEPT ![w] = "loop"]
                /\ task_json' = [task_json EXCEPT ![w] = NoTask]
                /\ UNCHANGED failed_payload
    /\ UNCHANGED <<redisUp, queue, failed, attempt, stop_event, enqueued, delivered, cancelled, signal_task>>
    /\ UNCHANGED gatewayVars

\* worker.py:151  await r.rpush(FAILED_QUEUE_KEY, failed_payload)
DlqPush(w) ==
    /\ pc[w] = "dlq_push"
    /\ IF redisUp
       THEN /\ failed' = rpush(failed, [id |-> task_json[w].id, text |-> failed_payload[w]])
            /\ pc' = [pc EXCEPT ![w] = "loop"]
       ELSE /\ pc' = [pc EXCEPT ![w] = AfterRedisError(w)]
            /\ UNCHANGED failed
    /\ task_json' = [task_json EXCEPT ![w] = NoTask]
    /\ failed_payload' = [failed_payload EXCEPT ![w] = None]
    /\ UNCHANGED <<redisUp, queue, attempt, stop_event, enqueued, delivered, result, cancelled, signal_task>>
    /\ UNCHANGED gatewayVars

\* worker.py:161  asyncio.sleep(5) in the RedisError handler
RedisErrorSleep(w) ==
    /\ pc[w] = "redis_error_sleep"
    /\ pc' = [pc EXCEPT ![w] = "redis_ping"]
    /\ UNCHANGED <<redisUp, queue, failed, attempt, stop_event, task_json,
                   failed_payload, enqueued, delivered, result, cancelled, signal_task>>
    /\ UNCHANGED gatewayVars

\* worker.py:162-166  await r.ping(): restored or not, the loop goes on
RedisPing(w) ==
    /\ pc[w] = "redis_ping"
    /\ pc' = [pc EXCEPT ![w] = "loop"]
    /\ UNCHANGED <<redisUp, queue, failed, attempt, stop_event, task_json,
                   failed_payload, enqueued, delivered, result, cancelled, signal_task>>
    /\ UNCHANGED gatewayVars

\* worker.py:154-155  CancelledError delivered at an await inside the try
\* block of the loop: break
Cancel(w) ==
    /\ pc[w] \in {"blpop", "dlq_push"}
    /\ pc' = [pc EXCEPT ![w] = "close"]
    /\ cancelled' = [cancelled EXCEPT ![w] = TRUE]
    /\ task_json' = [task_json EXCEPT ![w] = NoTask]
    /\ failed_payload' = [failed_payload EXCEPT ![w] = None]
    /\ UNCHANGED <<redisUp, queue, failed, attempt, stop_event, enqueued,
                   delivered, result, signal_task>>
    /\ UNCHANGED gatewayVars

\* worker.py:174-175  await r.close(); the worker returns
Close(w) ==
    /\ pc[w] = "close"
    /\ pc' = [pc EXCEPT ![w] = "stopped"]
    /\ UNCHANGED <<redisUp, queue, failed, attempt, stop_event, task_json,
                   failed_payload, enqueued, delivered, result, cancelled, signal_task>>
    /\ UNCHANGED gatewayVars


\* ------------------------------------------------- orchestrate_pipeline
\* The runs of AgentOrchestrator.orchestrate_pipeline for the package
\* "lodash", as far as the store sees them.  The stage agents' results are
\* any non-empty list of CVE ids; rows of threat_cases are not read by the
\* gateway and are left out.

\* the lists the mapping stage can resolve: the CVE ids 1..n, n >= 1
\* (agent_orchestrator.py:201-205, never empty)
MappingResults == {[i \in 1..n |-> i] : n \in 1..MaxCves}

Range(seq) == {seq[i] : i \in DOMAIN seq}

\* agent_orchestrator.py:193-205  get_session() yields a session or None;
\* the mapping stage resolves cve_ids
PipelineStart(session, cve_ids) ==
    /\ p_pc = "idle"
    /\ runs < MaxRuns
    /\ runs' = runs + 1
    /\ p_session' = session
    /\ p_cves' = cve_ids
    /\ p_index' = 1
    /\ p_pc' = "persist_mapping"
    /\ UNCHANGED txEpss
    /\ UNCHANGED <<storeVars, queryVars, redisUp, queue, enqueued, workerVars, stageVars, cacheVars, unitVars>>

\* agent_orchestrator.py:207-216  upsert_mapping + commit, or rollback
MappingAfterPersist(mapping, cve_ids, ok) ==
    IF ok THEN Range(cve_ids) ELSE mapping

PersistMapping(ok) ==
    /\ p_pc = "persist_mapping"
    /\ dbMapping' = (IF p_session THEN MappingAfterPersist(dbMapping, p_cves, ok)
                     ELSE dbMapping)
    /\ p_pc' = "persist_epss"
    /\ UNCHANGED <<dbEpss, dbCvss, dbAnalysis>>
    /\ UNCHANGED <<p_session, p_cves, p_index, txEpss, runs>>
    /\ UNCHANGED <<queryVars, redisUp, queue, enqueued, workerVars, stageVars, cacheVars, unitVars>>

\* agent_orchestrator.py:218-235  the two scoring stages have joined; the
\* EPSS rows are upserted in the session (no commit), or rolled back
PersistEpss(ok) ==
    /\ p_pc = "persist_epss"
    /\ txEpss' = (IF p_session /\ ok THEN Range(p_cves) ELSE {})
    /\ p_pc' = "persist_cvss"
    /\ UNCHANGED <<storeVars, p_session, p_cves, p_index, runs>>
    /\ UNCHANGED <<queryVars, redisUp, queue, enqueued, workerVars, stageVars, cacheVars, unitVars>>

\* agent_orchestrator.py:237-250  the CVSS rows are upserted and the session
\* committed (with the pending EPSS rows), or everything pending rolled back
PersistCvss(ok) ==
    /\ p_pc = "persist_cvss"
    /\ IF p_session /\ ok
       THEN /\ dbEpss' = dbEpss \cup txEpss
            /\ dbCvss' = dbCvss \cup Range(p_cves)
            /\ q_stale' = [q_stale EXCEPT !.epss = @ \ txEpss, !.cvss = @ \ Range(p_cves)]
       ELSE UNCHANGED <<dbEpss, dbCvss, q_stale>>
    /\ txEpss' = {}
    /\ p_pc' = "persist_analysis"
    /\ UNCHANGED <<dbMapping, dbAnalysis, p_session, p_cves, p_index, runs>>
    /\ UNCHANGED <<q_pc, q_req, q_submit, q_response, q_outcome, qcache, q_lookup, pollVars,
                   redisUp, queue, enqueued, workerVars, stageVars, cacheVars, unitVars>>

\* analyzer/app/repository.py:20-28  the parameters of upsert_analysis, none
\* with a default
UpsertAnalysisParams ==
    {"cve_id", "risk_level", "risk_score", "recommendations", "analysis_summary",
     "generated_at"}

\* agent_orchestrator.py:297-303  the keyword arguments orchestrate_pipeline
\* passes to upsert_analysis
UpsertAnalysisCallKwargs ==
    {"cve_id", "risk_level", "recommendations", "analysis_summary", "generated_at"}

\* Python raises TypeError at a call that leaves a parameter without a
\* default unsupplied
CallSupplies(kwargs, required) == required \subseteq kwargs

\* agent_orchestrator.py:295-307  upsert_analysis and commit happen only if
\* the call binds and the database accepts them; otherwise rollback
AnalysisPersisted(ok) ==
    /\ ok
    /\ CallBinds(UpsertAnalysisCallKwargs, UpsertAnalysisParams)
    /\ CallSupplies(UpsertAnalysisCallKwargs, UpsertAnalysisParams)

\* agent_orchestrator.py:252-307  for one CVE: threat stage, analysis stage,
\* upsert_analysis + commit (or rollback); after the last CVE the run is over
PersistAnalysis(ok) ==
    /\ p_pc = "persist_analysis"
    /\ dbAnalysis' = (IF p_session /\ AnalysisPersisted(ok)
                      THEN dbAnalysis \cup {p_cves[p_index]}
                      ELSE dbAnalysis)
    /\ q_stale' = (IF p_session /\ AnalysisPersisted(ok)
                   THEN [q_stale EXCEPT !.analysis = @ \ {p_cves[p_index]}]
                   ELSE q_stale)
    /\ IF p_index = Len(p_cves)
       THEN /\ p_pc' = "idle"
            /\ p_index' = 0
            /\ p_cves' = <<>>
            /\ p_session' = FALSE
       ELSE /\ p_index' = p_index + 1
            /\ UNCHANGED <<p_pc, p_cves, p_session>>
    /\ UNCHANGED <<dbMapping, dbEpss, dbCvss, txEpss, runs>>
    /\ UNCHANGED <<q_pc, q_req, q_submit, q_response, q_outcome, qcache, q_lookup, pollVars,
                   redisUp, queue, enqueued, workerVars, stageVars, cacheVars, unitVars>>

\* ----------------------------------------- orchestrate_pipeline, the stages
\* One call of orchestrate_pipeline as its caller sees it: the stage agents
\* with their cache, their fallbacks and their progress callback, the
\* persistence steps as far as they can fail, and the way out of the session
\* block.  One package and version range, so one cache key per stage (and
\* per CVE id for the threat and analysis stages); entries are taken within
\* their TTL.

oKeep == <<storeVars, pipelineVars, queryVars, redisUp, queue, enqueued, workerVars, unitVars>>

\* what a service call does, what a persistence step does (it succeeds, it
\* fails and the rollback succeeds, or the rollback fails too), what a
\* request to the cache backend does, and the call site at which the
\* progress callback raises ("none": it never raises)
CallOutcomes == {"returns", "raises"}
DbOutcomes == {"ok", "error", "rollback_error"}
CacheIo == {"ok", "error"}
CallbackSites == {"none", "INIT", "hit", "attempt", "fallback"}

\* agent_orchestrator.py:46-48  _fallback_cves: one placeholder id
fallback_cves == <<0>>

\* agent_orchestrator.py:30-43  _safe_call: the awaited value, or the value
\* of fallback() when the call raised an Exception
safe_call(outcome, value, fallback) == IF outcome = "returns" THEN value ELSE fallback

\* the record a service returned for a CVE id (its source is whatever the
\* service set, never "fallback"), and the fallback record
\* (agent_orchestrator.py:51-67, 88-101)
ServiceRecord(c) == [cve_id |-> c, source |-> "service"]
FallbackRecord(c) == [cve_id |-> c, source |-> "fallback"]

\* (mutant) a lookup that hands the first mapped id's record to every CVE
ResolveFirst(results, cve_id) ==
    IF 1 \in DOMAIN results THEN results[1] ELSE FallbackRecord(1)

\* agent_orchestrator.py:70-85  _resolve_epss_entry, _resolve_cvss_entry
ResolveEntry(results, cve_id) ==
    IF cve_id \in DOMAIN results THEN results[cve_id] ELSE FallbackRecord(cve_id)

\* analyzer/app/models.py:22-30  the fields AnalyzerOutput requires, and
\* agent_orchestrator.py:104-114  the fields _fallback_analysis supplies
AnalyzerOutputRequired ==
    {"cve_id", "risk_level", "risk_score", "recommendations", "analysis_summary",
     "generated_at"}
FallbackAnalysisFields ==
    {"cve_id", "risk_level", "recommendations", "analysis_summary", "generated_at"}

\* common_lib/db.py:81  the exceptions get_session suppresses
SuppressedBySession(error) == error \in {"none", "DBAPIError"}

\* ---- AsyncCache (common_lib/cache.py)

\* (mutant) a get that never returns a stored value
NeverHit(disabled, io, stored) == FALSE

\* cache.py:86-123  get returns the stored value: the cache is enabled, the
\* backend answered and the key is stored
CacheHit(disabled, io, stored) == ~disabled /\ io = "ok" /\ stored

\* (mutant) a cache that stays enabled after a failed request
StaysEnabled(disabled, io) == disabled

\* cache.py:94-98, 106-114, 133-137, 154-160  _disabled after a get or set
\* whose backend request ended with io
DisabledAfter(disabled, io) == disabled \/ io = "error"

\* cache.py:128-153  set stores the value: the cache is enabled and the
\* backend answered
CacheWrites(disabled, io) == ~disabled /\ io = "ok"

\* (mutant) agents that read the cache whatever the force flag
AlwaysReads(force) == TRUE

\* agent_orchestrator.py:365, 394, 430, 473, 504  "if not force": the agent
\* calls cache.get
ReadsCache(force) == ~force

\* the entry of a per-CVE key in the form get sees it
EntryOf(map, c) ==
    [present |-> c \in DOMAIN map,
     value |-> IF c \in DOMAIN map THEN map[c] ELSE NoRecord]

\* agent_orchestrator.py:363-381 (and 463-488, 500-528)  a single-item
\* agent: cache.get unless forced, on a hit the cached value; otherwise the
\* service call through _safe_call and cache.set of what it gave.  cb is
\* the site at which the progress callback raises.
StageRun(force, disabled, entry, io_get, io_set, cb, outcome, live, fallback) ==
    LET reads == ReadsCache(force)
        hit == reads /\ CacheHit(disabled, io_get, entry.present)
        d1 == IF reads THEN DisabledAfter(disabled, io_get) ELSE disabled
        called == ~hit /\ cb # "attempt"
        returned == IF hit THEN cb # "hit"
                    ELSE called /\ ~(outcome = "raises" /\ cb = "fallback")
        sets == ~hit /\ returned
    IN [hit |-> hit,
        called |-> called,
        svc_raised |-> called /\ outcome = "raises",
        returned |-> returned,
        value |-> IF hit THEN entry.value ELSE safe_call(outcome, live, fallback),
        got |-> reads /\ ~disabled,
        put |-> sets /\ ~d1,
        wrote |-> sets /\ CacheWrites(d1, io_set),
        read_disabled |-> d1,
        disabled |-> IF sets THEN DisabledAfter(d1, io_set) ELSE d1,
        failed |-> \/ (reads /\ ~disabled /\ io_get = "error")
                   \/ (sets /\ ~d1 /\ io_set = "error")]

\* what a stage run leaves behind besides its value: the external call, the
\* backend requests, the cache flags
StageEffects(r, stage, id) ==
    /\ o_calls' = IF r.called THEN o_calls \cup {<<stage, id>>} ELSE o_calls
    /\ o_backend' = o_backend \cup (IF r.got THEN {<<"get", stage, id>>} ELSE {})
                              \cup (IF r.put THEN {<<"set", stage, id>>} ELSE {})
    /\ o_raised' = IF r.svc_raised THEN o_raised \cup {stage} ELSE o_raised
    /\ cache_disabled' = r.disabled
    /\ cache_failed' = (cache_failed \/ r.failed)

\* ---- orchestrate_pipeline

\* agent_orchestrator.py:176-199  the call starts: the INIT progress call,
\* then get_session yields a session or None
OrchestrateStart(session, skip, force, cb) ==
    /\ o_pc = "idle"
    /\ o_session' = session
    /\ o_skip' = skip
    /\ o_force' = force
    /\ o_cb' = cb
    /\ IF cb = "INIT"
       THEN o_error' = "CallbackError" /\ o_pc' = "raised"
       ELSE o_pc' = "mapping" /\ UNCHANGED o_error
    /\ UNCHANGED <<o_cves, e_pc, e_cached, e_missing, o_epss, c_pc, c_cached,
                       c_missing, o_cvss, o_index, o_threat, o_analysis, o_results,
                       o_raised, o_calls, o_backend, cache_disabled, cache_failed,
                       cache, oKeep>>

\* agent_orchestrator.py:201-205, 356-381  the mapping stage; an empty list
\* is replaced by the placeholder
MappingAgent(io_get, io_set, outcome, ids) ==
    /\ o_pc = "mapping"
    /\ LET r == StageRun(o_force, cache_disabled, cache.mapping, io_get, io_set,
                         o_cb, outcome, ids, fallback_cves)
       IN /\ StageEffects(r, "MAPPING", 0)
          /\ cache' = IF r.wrote
                      THEN [cache EXCEPT !.mapping = [present |-> TRUE, value |-> r.value]]
                      ELSE cache
          /\ IF r.returned
             THEN /\ o_cves' = IF r.value = <<>> THEN fallback_cves ELSE r.value
                  /\ o_pc' = IF o_session THEN "persist_mapping" ELSE "scoring"
                  /\ UNCHANGED o_error
             ELSE /\ o_error' = "CallbackError"
                  /\ o_pc' = "session_exit"
                  /\ UNCHANGED o_cves
    /\ UNCHANGED <<o_session, o_skip, o_force, o_cb, e_pc, e_cached, e_missing, o_epss,
                       c_pc, c_cached, c_missing, o_cvss, o_index, o_threat,
                       o_analysis, o_results, oKeep>>

\* a persistence step inside try/except: a failure is rolled back and
\* logged; a rollback that raises leaves the session block
Persist(at, next, db) ==
    /\ o_pc = at
    /\ IF db = "rollback_error"
       THEN o_error' = "DBAPIError" /\ o_pc' = "session_exit"
       ELSE o_pc' = next /\ UNCHANGED o_error
    /\ UNCHANGED <<o_session, o_skip, o_force, o_cb, o_cves, e_pc, e_cached, e_missing,
                       o_epss, c_pc, c_cached, c_missing, o_cvss, o_index, o_threat,
                       o_analysis, o_results, o_raised, o_calls, o_backend,
                       cache_disabled, cache_failed, cache, oKeep>>

\* agent_orchestrator.py:207-216
SaveMapping(db) == Persist("persist_mapping", "scoring", db)

\* agent_orchestrator.py:399-404, 435-440  the ids of cve_list that the
\* results do not hold yet
MissingIds(cve_list, results) ==
    LET Missing(c) == c \notin DOMAIN results IN SelectSeq(cve_list, Missing)

\* agent_orchestrator.py:406, 442  "for cve_id in missing_ids": the ids the
\* loop has not fetched yet
Pending(missing_ids, stage, calls) ==
    LET Waiting(c) == <<stage, c>> \notin calls IN SelectSeq(missing_ids, Waiting)

\* (mutant) a batch agent that refetches every id of cve_list
AllIds(cve_list, results) == cve_list

\* agent_orchestrator.py:399-404  missing_ids of a batch agent
BatchMissing(cve_list, results) == MissingIds(cve_list, results)

\* (mutant) a batch agent that starts from an empty map
FromEmpty(hit, stored) == <<>>

\* agent_orchestrator.py:399, 435  dict(cached) if isinstance(cached, dict)
\* else {}
BatchResults(hit, stored) == IF hit THEN stored ELSE <<>>

\* agent_orchestrator.py:415, 451  cache.set is called: forced, nothing was
\* cached, or something was fetched
BatchSets(force, cached, missing_ids) ==
    force \/ ~cached.present \/ missing_ids # <<>>

\* agent_orchestrator.py:391-404  _epss_agent up to its first fetch:
\* cache.get unless forced, the results so far and missing_ids
EpssBegin(io_get) ==
    /\ o_pc = "scoring"
    /\ e_pc = "idle"
    /\ LET reads == ReadsCache(o_force)
           hit == reads /\ CacheHit(cache_disabled, io_get, cache.epss.present)
           results == BatchResults(hit, cache.epss.value)
       IN /\ o_backend' = o_backend \cup
                 (IF reads /\ ~cache_disabled THEN {<<"get", "EPSS", 0>>} ELSE {})
          /\ cache_disabled' = IF reads THEN DisabledAfter(cache_disabled, io_get)
                               ELSE cache_disabled
          /\ cache_failed' = (cache_failed \/ (reads /\ ~cache_disabled /\ io_get = "error"))
          /\ IF hit /\ o_cb = "hit"
             THEN /\ o_error' = "CallbackError"
                  /\ o_pc' = "session_exit"
                  /\ UNCHANGED <<e_pc, e_cached, e_missing, o_epss>>
             ELSE /\ e_cached' = [present |-> hit, value |-> results]
                  /\ o_epss' = results
                  /\ e_missing' = BatchMissing(o_cves, results)
                  /\ e_pc' = "fetch"
                  /\ UNCHANGED <<o_pc, o_error>>
    /\ UNCHANGED <<o_session, o_skip, o_force, o_cb, o_cves, c_pc, c_cached, c_missing,
                       o_cvss, o_index, o_threat, o_analysis, o_results, o_raised,
                       o_calls, cache, oKeep>>

\* agent_orchestrator.py:406-413  the next missing id is fetched through
\* _safe_call
EpssFetch(outcome) ==
    /\ o_pc = "scoring"
    /\ e_pc = "fetch"
    /\ Pending(e_missing, "EPSS", o_calls) # <<>>
    /\ LET c == Head(Pending(e_missing, "EPSS", o_calls)) IN
         IF o_cb = "attempt"
         THEN /\ o_error' = "CallbackError"
              /\ o_pc' = "session_exit"
              /\ UNCHANGED <<o_epss, o_calls, o_raised>>
         ELSE /\ o_calls' = o_calls \cup {<<"EPSS", c>>}
              /\ o_raised' = IF outcome = "raises" THEN o_raised \cup {"EPSS"} ELSE o_raised
              /\ IF outcome = "raises" /\ o_cb = "fallback"
                 THEN /\ o_error' = "CallbackError"
                      /\ o_pc' = "session_exit"
                      /\ UNCHANGED o_epss
                 ELSE /\ o_epss' = (c :> safe_call(outcome, ServiceRecord(c),
                                                   FallbackRecord(c))) @@ o_epss
                      /\ UNCHANGED <<o_pc, o_error>>
    /\ UNCHANGED <<o_session, o_skip, o_force, o_cb, o_cves, e_pc, e_cached, e_missing,
                       c_pc, c_cached, c_missing, o_cvss, o_index, o_threat,
                       o_analysis, o_results, o_backend, cache_disabled, cache_failed,
                       cache, oKeep>>

\* agent_orchestrator.py:415-417  the results are cached and returned
EpssEnd(io_set) ==
    /\ o_pc = "scoring"
    /\ e_pc = "fetch"
    /\ Pending(e_missing, "EPSS", o_calls) = <<>>
    /\ LET sets == BatchSets(o_force, e_cached, e_missing) IN
         /\ o_backend' = o_backend \cup
                (IF sets /\ ~cache_disabled THEN {<<"set", "EPSS", 0>>} ELSE {})
         /\ cache' = IF sets /\ CacheWrites(cache_disabled, io_set)
                     THEN [cache EXCEPT !.epss = [present |-> TRUE, value |-> o_epss]]
                     ELSE cache
         /\ cache_disabled' = IF sets THEN DisabledAfter(cache_disabled, io_set)
                              ELSE cache_disabled
         /\ cache_failed' = (cache_failed \/ (sets /\ ~cache_disabled /\ io_set = "error"))
    /\ e_pc' = "done"
    /\ UNCHANGED <<o_pc, o_session, o_skip, o_force, o_cb, o_cves, e_cached, e_missing,
                       o_epss, c_pc, c_cached, c_missing, o_cvss, o_index, o_threat,
                       o_analysis, o_results, o_error, o_raised, o_calls, oKeep>>

\* agent_orchestrator.py:427-440  _cvss_agent up to its first fetch
CvssBegin(io_get) ==
    /\ o_pc = "scoring"
    /\ c_pc = "idle"
    /\ LET reads == ReadsCache(o_force)
           hit == reads /\ CacheHit(cache_disabled, io_get, cache.cvss.present)
           results == BatchResults(hit, cache.cvss.value)
       IN /\ o_backend' = o_backend \cup
                 (IF reads /\ ~cache_disabled THEN {<<"get", "CVSS", 0>>} ELSE {})
          /\ cache_disabled' = IF reads THEN DisabledAfter(cache_disabled, io_get)
                               ELSE cache_disabled
          /\ cache_failed' = (cache_failed \/ (reads /\ ~cache_disabled /\ io_get = "error"))
          /\ IF hit /\ o_cb = "hit"
             THEN /\ o_error' = "CallbackError"
                  /\ o_pc' = "session_exit"
                  /\ UNCHANGED <<c_pc, c_cached, c_missing, o_cvss>>
             ELSE /\ c_cached' = [present |-> hit, value |-> results]
                  /\ o_cvss' = results
                  /\ c_missing' = BatchMissing(o_cves, results)
                  /\ c_pc' = "fetch"
                  /\ UNCHANGED <<o_pc, o_error>>
    /\ UNCHANGED <<o_session, o_skip, o_force, o_cb, o_cves, e_pc, e_cached, e_missing,
                       o_epss, o_index, o_threat, o_analysis, o_results, o_raised,
                       o_calls, cache, oKeep>>

\* agent_orchestrator.py:442-449
CvssFetch(outcome) ==
    /\ o_pc = "scoring"
    /\ c_pc = "fetch"
    /\ Pending(c_missing, "CVSS", o_calls) # <<>>
    /\ LET c == Head(Pending(c_missing, "CVSS", o_calls)) IN
         IF o_cb = "attempt"
         THEN /\ o_error' = "CallbackError"
              /\ o_pc' = "session_exit"
              /\ UNCHANGED <<o_cvss, o_calls, o_raised>>
         ELSE /\ o_calls' = o_calls \cup {<<"CVSS", c>>}
              /\ o_raised' = IF outcome = "raises" THEN o_raised \cup {"CVSS"} ELSE o_raised
              /\ IF outcome = "raises" /\ o_cb = "fallback"
                 THEN /\ o_error' = "CallbackError"
                      /\ o_pc' = "session_exit"
                      /\ UNCHANGED o_cvss
                 ELSE /\ o_cvss' = (c :> safe_call(outcome, ServiceRecord(c),
                                                   FallbackRecord(c))) @@ o_cvss
                      /\ UNCHANGED <<o_pc, o_error>>
    /\ UNCHANGED <<o_session, o_skip, o_force, o_cb, o_cves, e_pc, e_cached, e_missing,
                       o_epss, c_pc, c_cached, c_missing, o_index, o_threat,
                       o_analysis, o_results, o_backend, cache_disabled, cache_failed,
                       cache, oKeep>>

\* agent_orchestrator.py:451-453
CvssEnd(io_set) ==
    /\ o_pc = "scoring"
    /\ c_pc = "fetch"
    /\ Pending(c_missing, "CVSS", o_calls) = <<>>
    /\ LET sets == BatchSets(o_force, c_cached, c_missing) IN
         /\ o_backend' = o_backend \cup
                (IF sets /\ ~cache_disabled THEN {<<"set", "CVSS", 0>>} ELSE {})
         /\ cache' = IF sets /\ CacheWrites(cache_disabled, io_set)
                     THEN [cache EXCEPT !.cvss = [present |-> TRUE, value |-> o_cvss]]
                     ELSE cache
         /\ cache_disabled' = IF sets THEN DisabledAfter(cache_disabled, io_set)
                              ELSE cache_disabled
         /\ cache_failed' = (cache_failed \/ (sets /\ ~cache_disabled /\ io_set = "error"))
    /\ c_pc' = "done"
    /\ UNCHANGED <<o_pc, o_session, o_skip, o_force, o_cb, o_cves, e_pc, e_cached,
                       e_missing, o_epss, c_cached, c_missing, o_cvss, o_index,
                       o_threat, o_analysis, o_results, o_error, o_raised, o_calls,
                       oKeep>>

\* (mutant) a gather that returns when the first agent has returned
GatheredFirst(epss_pc, cvss_pc) == epss_pc = "done" \/ cvss_pc = "done"

\* agent_orchestrator.py:218-221  asyncio.gather returns when both agents
\* have returned
Gathered(epss_pc, cvss_pc) == epss_pc = "done" /\ cvss_pc = "done"

\* agent_orchestrator.py:218-224, 252  the gather is over; persistence or
\* the per-CVE loop follows
ScoresJoined ==
    /\ o_pc = "scoring"
    /\ Gathered(e_pc, c_pc)
    /\ o_index' = 1
    /\ o_pc' = IF o_session THEN "persist_epss" ELSE "threat"
    /\ UNCHANGED <<o_session, o_skip, o_force, o_cb, o_cves, e_pc, e_cached, e_missing,
                       o_epss, c_pc, c_cached, c_missing, o_cvss, o_threat, o_analysis,
                       o_results, o_error, o_raised, o_calls, o_backend,
                       cache_disabled, cache_failed, cache, oKeep>>

\* agent_orchestrator.py:223-235, 237-250
SaveEpss(db) == Persist("persist_epss", "persist_cvss", db)
SaveCvss(db) == Persist("persist_cvss", "threat", db)

\* agent_orchestrator.py:252-266, 455-488  the threat stage of the current
\* CVE; skip_threat_agent returns the fallback without cache or call
ThreatAgent(io_get, io_set, outcome) ==
    /\ o_pc = "threat"
    /\ LET c == o_cves[o_index]
           r == StageRun(o_force, cache_disabled, EntryOf(cache.threat, c), io_get,
                         io_set, o_cb, outcome, ServiceRecord(c), FallbackRecord(c))
       IN IF o_skip
          THEN /\ o_threat' = FallbackRecord(c)
               /\ o_pc' = IF o_session THEN "persist_threat" ELSE "analysis"
               /\ UNCHANGED <<o_calls, o_backend, o_raised, cache_disabled, cache_failed,
                              cache, o_error>>
          ELSE /\ StageEffects(r, "THREAT", c)
               /\ cache' = IF r.wrote
                           THEN [cache EXCEPT !.threat = (c :> r.value) @@ cache.threat]
                           ELSE cache
               /\ IF r.returned
                  THEN /\ o_threat' = r.value
                       /\ o_pc' = IF o_session THEN "persist_threat" ELSE "analysis"
                       /\ UNCHANGED o_error
                  ELSE /\ o_error' = "CallbackError"
                       /\ o_pc' = "session_exit"
                       /\ UNCHANGED o_threat
    /\ UNCHANGED <<o_session, o_skip, o_force, o_cb, o_cves, e_pc, e_cached, e_missing,
                       o_epss, c_pc, c_cached, c_missing, o_cvss, o_index, o_analysis,
                       o_results, oKeep>>

\* agent_orchestrator.py:268-282
SaveThreat(db) == Persist("persist_threat", "analysis", db)

\* an AnalyzerOutput as the cache holds it, and as a hit returns it (no
\* call of the service, so no inputs)
CachedAnalysis(c, source) ==
    [cve_id |-> c, source |-> source, epss |-> NoRecord, cvss |-> NoRecord,
     cases |-> NoRecord]

\* agent_orchestrator.py:284-292, 490-528  the analysis stage of the current
\* CVE, called with the records resolved for it at lines 258-259; when the
\* service raises, _fallback_analysis constructs an AnalyzerOutput, which
\* raises ValidationError if a required field is missing
AnalysisAgent(io_get, io_set, outcome) ==
    /\ o_pc = "analysis"
    /\ LET c == o_cves[o_index]
           called == [cve_id |-> c, source |-> "service",
                      epss |-> ResolveEntry(o_epss, c),
                      cvss |-> ResolveEntry(o_cvss, c),
                      cases |-> o_threat]
           stored == EntryOf(cache.analysis, c)
           entry == [present |-> stored.present,
                     value |-> CachedAnalysis(c, stored.value.source)]
           r == StageRun(o_force, cache_disabled, entry, io_get, io_set, o_cb, outcome,
                         called, [called EXCEPT !.source = "fallback"])
           invalid == /\ r.svc_raised
                      /\ r.returned
                      /\ ~CallSupplies(FallbackAnalysisFields, AnalyzerOutputRequired)
       IN /\ o_calls' = IF r.called THEN o_calls \cup {<<"ANALYZE", c>>} ELSE o_calls
          /\ o_raised' = IF r.svc_raised THEN o_raised \cup {"ANALYZE"} ELSE o_raised
          /\ o_backend' = o_backend
                 \cup (IF r.got THEN {<<"get", "ANALYZE", c>>} ELSE {})
                 \cup (IF r.put /\ ~invalid THEN {<<"set", "ANALYZE", c>>} ELSE {})
          /\ cache_disabled' = IF invalid THEN r.read_disabled ELSE r.disabled
          /\ cache_failed' = (cache_failed \/ (r.got /\ io_get = "error")
                                           \/ (r.put /\ ~invalid /\ io_set = "error"))
          /\ cache' = IF r.wrote /\ ~invalid
                      THEN [cache EXCEPT !.analysis =
                                (c :> [cve_id |-> c, source |-> r.value.source])
                                    @@ cache.analysis]
                      ELSE cache
          /\ IF invalid
             THEN /\ o_error' = "ValidationError"
                  /\ o_pc' = "session_exit"
                  /\ UNCHANGED o_analysis
             ELSE IF r.returned
             THEN /\ o_analysis' = r.value
                  /\ o_pc' = IF o_session THEN "persist_analysis" ELSE "append"
                  /\ UNCHANGED o_error
             ELSE /\ o_error' = "CallbackError"
                  /\ o_pc' = "session_exit"
                  /\ UNCHANGED o_analysis
    /\ UNCHANGED <<o_session, o_skip, o_force, o_cb, o_cves, e_pc, e_cached, e_missing,
                       o_epss, c_pc, c_cached, c_missing, o_cvss, o_index, o_threat,
                       o_results, oKeep>>

\* agent_orchestrator.py:294-307  upsert_analysis + commit
SaveAnalysis(db) ==
    Persist("persist_analysis", "append",
            IF db = "ok" /\ ~AnalysisPersisted(TRUE) THEN "error" ELSE db)

\* agent_orchestrator.py:309-340  the item of the current CVE is appended;
\* the loop goes to the next CVE or the session block ends
AppendResult ==
    /\ o_pc = "append"
    /\ LET c == o_cves[o_index] IN
         o_results' = Append(o_results,
                             [cve_id |-> c,
                              epss |-> ResolveEntry(o_epss, c),
                              cvss |-> ResolveEntry(o_cvss, c),
                              cases |-> o_threat,
                              analysis |-> o_analysis])
    /\ IF o_index = Len(o_cves)
       THEN o_pc' = "session_exit" /\ UNCHANGED o_index
       ELSE o_pc' = "threat" /\ o_index' = o_index + 1
    /\ o_threat' = NoRecord
    /\ o_analysis' = NoAnalysis
    /\ UNCHANGED <<o_session, o_skip, o_force, o_cb, o_cves, e_pc, e_cached, e_missing,
                       o_epss, c_pc, c_cached, c_missing, o_cvss, o_error, o_raised,
                       o_calls, o_backend, cache_disabled, cache_failed, cache, oKeep>>

\* common_lib/db.py:69-90, agent_orchestrator.py:342-354  leaving the
\* session block: get_session suppresses a database error and re-raises
\* anything else; after the block pipeline_results is returned
SessionExit ==
    /\ o_pc = "session_exit"
    /\ o_pc' = IF SuppressedBySession(o_error) THEN "returned" ELSE "raised"
    /\ UNCHANGED <<o_session, o_skip, o_force, o_cb, o_cves, e_pc, e_cached, e_missing,
                       o_epss, c_pc, c_cached, c_missing, o_cvss, o_index, o_threat,
                       o_analysis, o_results, o_error, o_raised, o_calls, o_backend,
                       cache_disabled, cache_failed, cache, oKeep>>

\* the caller has the result or the exception; the next call may come.
\* The AsyncCache of the orchestrator and the entries in Redis stay.
OrchestrateEnd ==
    /\ o_pc \in {"returned", "raised"}
    /\ o_pc' = "idle"
    /\ o_session' = FALSE
    /\ o_skip' = FALSE
    /\ o_force' = FALSE
    /\ o_cb' = "none"
    /\ o_cves' = <<>>
    /\ e_pc' = "idle"
    /\ e_cached' = NoEntry
    /\ e_missing' = <<>>
    /\ o_epss' = <<>>
    /\ c_pc' = "idle"
    /\ c_cached' = NoEntry
    /\ c_missing' = <<>>
    /\ o_cvss' = <<>>
    /\ o_index' = 0
    /\ o_threat' = NoRecord
    /\ o_analysis' = NoAnalysis
    /\ o_results' = <<>>
    /\ o_error' = "none"
    /\ o_raised' = {}
    /\ o_calls' = {}
    /\ o_backend' = {}
    /\ UNCHANGED <<cache_disabled, cache_failed, cache, oKeep>>

\* ---------------------------------------------------------- QueryService
\* query_api/app/redis_ops.py:65-70  the parameters of submit_analysis_job
SubmitAnalysisJobParams == {"package_name", "version", "force", "source"}

\* query_api/app/service.py:79-92, 154-167  the keyword arguments query passes
SubmitCallKwargs(req) ==
    IF req.package # ""
    THEN {"package_name", "version", "force", "source", "ecosystem"}
    ELSE {"cve_id", "force", "source", "ecosystem"}

\* query_api/app/redis_ops.py:65-123  what a call of submit_analysis_job
\* ends with: the TypeError of a call that does not bind, True after the
\* rpush, False when Redis is unavailable
submit_analysis_job(kwargs, up) ==
    IF ~CallBinds(kwargs, SubmitAnalysisJobParams) THEN "TypeError"
    ELSE IF up THEN "True"
    ELSE "False"

\* query_api/app/service.py:201-222  _build_cache_key
CacheKey(req) == IF req.package # "" THEN "package" ELSE "cve"

\* query_api/app/repository.py:21-90  find_by_package: one row per CVE id of
\* the mapping, LEFT JOINed with the score and analysis tables (a missing
\* row gives NULLs)
find_by_package ==
    {[cve_id |-> c, epss |-> c \in dbEpss, cvss |-> c \in dbCvss,
      analysis |-> c \in dbAnalysis] : c \in dbMapping}

\* query_api/app/repository.py:92-141  find_by_cve: the analysis row of the
\* CVE, LEFT JOINed with the score tables
find_by_cve(cve) ==
    {[cve_id |-> c, epss |-> c \in dbEpss, cvss |-> c \in dbCvss,
      analysis |-> TRUE] : c \in dbAnalysis \cap {cve}}

FindRows(req) == IF req.package # "" THEN find_by_package ELSE find_by_cve(req.cve_id)

\* requests by package, and requests with neither a package nor a CVE id
PackageRequests ==
    [package : {"lodash", ""}, cve_id : {0}, force : BOOLEAN]

qKeep == <<storeVars, pipelineVars, redisUp, queue, enqueued, workerVars, stageVars, cacheVars, unitVars>>

\* (mutant) a _build_cache_key that accepts every request
AcceptsAnyRequest(req) == FALSE

\* query_api/app/service.py:212-222  _build_cache_key raises InvalidInputError:
\* neither a package nor a CVE id
BuildCacheKeyRaises(req) == req.package = "" /\ req.cve_id = 0

\* query_api/app/service.py:50  query is called; _build_cache_key raises
\* InvalidInputError when there is neither a package nor a CVE id
QueryStart(req) ==
    /\ q_pc = "idle"
    /\ q_req' = req
    /\ q_submit' = "none"
    /\ q_response' = NoResponse
    /\ IF BuildCacheKeyRaises(req)
       THEN q_outcome' = "InvalidInputError" /\ q_pc' = "done"
       ELSE q_outcome' = "none" /\ q_pc' = "cache_get"
    /\ UNCHANGED <<qcache, q_lookup, q_stale, pollVars, qKeep>>

\* query_api/app/service.py:51-64  the cache lookup: a hit is returned
\* unless force is set; a Redis failure counts as a miss
QueryCacheGet ==
    /\ q_pc = "cache_get"
    /\ LET cached == IF redisUp THEN qcache[CacheKey(q_req)] ELSE NoResponse IN
         IF cached.present /\ ~q_req.force
         THEN /\ q_response' = cached
              /\ q_outcome' = "response"
              /\ q_pc' = "done"
         ELSE /\ q_pc' = (IF q_req.force THEN "force_delete" ELSE "find")
              /\ UNCHANGED <<q_response, q_outcome>>
    /\ UNCHANGED <<q_req, q_submit, qcache, q_lookup, q_stale, pollVars, qKeep>>

\* What is left of the request's subject once its forced delete has been
\* done: the cached response of its key, and for a package the score and
\* analysis rows of its CVEs, which delete_by_package does not touch.
StaleAfterDelete(req) ==
    LET kept == IF req.package # "" THEN dbMapping ELSE {} IN
    [cache |-> q_stale.cache \cup {k \in {CacheKey(req)} : qcache[k].present},
     epss |-> (q_stale.epss \ {req.cve_id}) \cup (dbEpss \cap kept),
     cvss |-> (q_stale.cvss \ {req.cve_id}) \cup (dbCvss \cap kept),
     analysis |-> (q_stale.analysis \ {req.cve_id}) \cup (dbAnalysis \cap kept)]

\* query_api/app/service.py:72-75, repository.py:217-270  delete_by_package
\* deletes the mapping row; delete_by_cve the analysis and score rows of
\* the CVE; a database error is raised as ExternalServiceError
QueryForceDelete(ok) ==
    /\ q_pc = "force_delete"
    /\ IF ~ok
       THEN /\ q_outcome' = "ExternalServiceError"
            /\ q_pc' = "done"
            /\ UNCHANGED <<storeVars, q_stale>>
       ELSE /\ q_pc' = "force_submit"
            /\ UNCHANGED q_outcome
            /\ q_stale' = StaleAfterDelete(q_req)
            /\ IF q_req.package # ""
               THEN /\ dbMapping' = {}
                    /\ UNCHANGED <<dbEpss, dbCvss, dbAnalysis>>
               ELSE /\ dbAnalysis' = dbAnalysis \ {q_req.cve_id}
                    /\ dbEpss' = dbEpss \ {q_req.cve_id}
                    /\ dbCvss' = dbCvss \ {q_req.cve_id}
                    /\ UNCHANGED dbMapping
    /\ UNCHANGED <<q_req, q_submit, q_response, qcache, q_lookup, pollVars>>
    /\ UNCHANGED <<pipelineVars, redisUp, queue, enqueued, workerVars, stageVars, cacheVars, unitVars>>

\* the rpush of submit_analysis_job (redis_ops.py:90-101) when it returned True
SubmitEffect(r) ==
    IF r = "True" /\ Len(enqueued) < MaxJobs
    THEN /\ queue' = rpush(queue, [id |-> Len(enqueued) + 1, text |-> SubmittedJobText])
         /\ enqueued' = Append(enqueued, SubmittedJobText)
    ELSE UNCHANGED <<queue, enqueued>>

\* query_api/app/service.py:77-99  force path: submit the job; False is
\* raised as ExternalServiceError, True goes on to poll
QueryForceSubmit ==
    /\ q_pc = "force_submit"
    /\ LET r == submit_analysis_job(SubmitCallKwargs(q_req), redisUp) IN
        /\ q_submit' = r
        /\ SubmitEffect(r)
        /\ IF r = "True"
           THEN q_pc' = "poll" /\ UNCHANGED q_outcome
           ELSE /\ q_pc' = "done"
                /\ q_outcome' = (IF r = "False" THEN "ExternalServiceError" ELSE r)
    /\ UNCHANGED <<q_req, q_response, qcache, q_lookup, q_stale, pollVars>>
    /\ UNCHANGED <<storeVars, pipelineVars, redisUp, workerVars, stageVars, cacheVars, unitVars>>

\* (mutant) a normal path that submits a job whatever the lookup reported
AlwaysSubmit(rows) == "notfound_submit"

\* query_api/app/service.py:122-152  where the normal path goes after the
\* lookup: rows are the response; no rows (ResourceNotFound) submit a job
AfterLookup(rows) == IF rows = {} THEN "notfound_submit" ELSE "cache_set"

\* query_api/app/service.py:121-150  the lookup of the normal path: rows
\* make the response, no rows (ResourceNotFound) triggers an analysis job,
\* a database error is raised as ExternalServiceError
QueryFind(ok) ==
    /\ q_pc = "find"
    /\ IF ~ok
       THEN /\ q_outcome' = "ExternalServiceError"
            /\ q_lookup' = "error"
            /\ q_pc' = "done"
            /\ UNCHANGED q_response
       ELSE IF FindRows(q_req) = {}
            THEN /\ q_pc' = AfterLookup({})
                 /\ q_lookup' = "notfound"
                 /\ UNCHANGED <<q_response, q_outcome>>
            ELSE /\ q_response' = [present |-> TRUE, rows |-> FindRows(q_req)]
                 /\ q_lookup' = "rows"
                 /\ q_pc' = AfterLookup(FindRows(q_req))
                 /\ UNCHANGED q_outcome
    /\ UNCHANGED <<q_req, q_submit, qcache, q_stale, pollVars, qKeep>>

\* query_api/app/service.py:152-176  not-found path: submit the job; on
\* False the bare raise re-raises the ResourceNotFound being handled
QueryNotFoundSubmit ==
    /\ q_pc = "notfound_submit"
    /\ LET r == submit_analysis_job(SubmitCallKwargs(q_req), redisUp) IN
        /\ q_submit' = r
        /\ SubmitEffect(r)
        /\ IF r = "True"
           THEN q_pc' = "poll" /\ UNCHANGED q_outcome
           ELSE /\ q_pc' = "done"
                /\ q_outcome' = (IF r = "False" THEN "ResourceNotFound" ELSE r)
    /\ UNCHANGED <<q_req, q_response, qcache, q_lookup, q_stale, pollVars>>
    /\ UNCHANGED <<storeVars, pipelineVars, redisUp, workerVars, stageVars, cacheVars, unitVars>>

\* (mutant) a loop condition that lets the loop body run once
PollOnce(t) == t < ANALYSIS_POLL_INTERVAL

\* query_api/app/service.py:279  while elapsed < ANALYSIS_MAX_WAIT_TIME
PollAgain(t) == t < ANALYSIS_MAX_WAIT_TIME

\* query_api/app/service.py:279-283  the loop goes round once more: sleep
\* one interval, then poll
PollSleep ==
    /\ q_pc = "poll"
    /\ PollAgain(elapsed)
    /\ elapsed' = elapsed + ANALYSIS_POLL_INTERVAL
    /\ q_pc' = "poll_find"
    /\ UNCHANGED <<q_req, q_submit, q_response, q_outcome, qcache, q_lookup, q_stale,
                   poll_error, qKeep>>

\* query_api/app/service.py:332-337, 106-119, 178-191  the wait is used up:
\* _poll_for_analysis_results returns None and query raises
\* AnalysisInProgressError
PollTimeout ==
    /\ q_pc = "poll"
    /\ ~PollAgain(elapsed)
    /\ q_outcome' = "AnalysisInProgressError"
    /\ q_pc' = "done"
    /\ UNCHANGED <<q_req, q_submit, q_response, qcache, q_lookup, q_stale, pollVars, qKeep>>

\* query_api/app/service.py:286-330  one poll: rows are returned as the
\* response; ResourceNotFound and any other exception are logged and the
\* loop continues
PollFind(ok) ==
    /\ q_pc = "poll_find"
    /\ IF ~ok
       THEN /\ poll_error' = TRUE
            /\ q_pc' = "poll"
            /\ UNCHANGED q_response
       ELSE IF FindRows(q_req) = {}
            THEN /\ q_pc' = "poll"
                 /\ UNCHANGED <<q_response, poll_error>>
            ELSE /\ q_response' = [present |-> TRUE, rows |-> FindRows(q_req)]
                 /\ q_pc' = "cache_set"
                 /\ UNCHANGED poll_error
    /\ UNCHANGED <<q_req, q_submit, q_outcome, qcache, q_lookup, q_stale, elapsed, qKeep>>

\* query_api/app/service.py:194-199  the response is cached (a Redis
\* failure is logged) and returned
QueryCacheSet ==
    /\ q_pc = "cache_set"
    /\ qcache' = (IF redisUp THEN [qcache EXCEPT ![CacheKey(q_req)] = q_response]
                  ELSE qcache)
    /\ q_stale' = (IF redisUp
                   THEN [q_stale EXCEPT !.cache = @ \ {CacheKey(q_req)}]
                   ELSE q_stale)
    /\ q_outcome' = "response"
    /\ q_pc' = "done"
    /\ UNCHANGED <<q_req, q_submit, q_response, q_lookup, pollVars, qKeep>>

\* the call is over; the next request may come
QueryReturn ==
    /\ q_pc = "done"
    /\ q_pc' = "idle"
    /\ q_req' = NoRequest
    /\ q_submit' = "none"
    /\ q_response' = NoResponse
    /\ q_outcome' = "none"
    /\ q_lookup' = "none"
    /\ elapsed' = 0
    /\ poll_error' = FALSE
    /\ UNCHANGED <<qcache, q_stale, qKeep>>

\* query_api/app/service.py:196  ex=self._cache_ttl: a cached response expires
CacheExpire(k) ==
    /\ qcache[k].present
    /\ qcache' = [qcache EXCEPT ![k] = NoResponse]
    /\ q_stale' = [q_stale EXCEPT !.cache = @ \ {k}]
    /\ UNCHANGED <<q_pc, q_req, q_submit, q_response, q_outcome, q_lookup, pollVars, qKeep>>

LoopStep(w) ==
    \/ LoopHead(w)
    \/ Blpop(w)
    \/ ProcessTask(w)
    \/ DlqPush(w)
    \/ RedisErrorSleep(w)
    \/ RedisPing(w)
    \/ Close(w)

\* One worker from its launch on, any producer, a Redis server that may
\* come and go, signals and cancellation.
Next ==
    \/ RedisGoesDown
    \/ RedisComesBack
    \/ \E text \in PayloadTexts : Enqueue(text)
    \/ \E w \in Workers :
         Connect(w) \/ ConnectSleep(w) \/ LoopStep(w) \/ Signal(w) \/ Cancel(w)

Spec == Init /\ [][Next]_vars

\* Several connected workers on one queue fed by submit_analysis_job and by
\* the malformed task of the regression test; no shutdown is requested.
NextWorkers ==
    \/ RedisGoesDown
    \/ RedisComesBack
    \/ \E text \in {SubmittedJobText, InvalidTaskText} : Enqueue(text)
    \/ \E w \in Workers :
         \/ LoopHead(w)
         \/ Blpop(w)
         \/ ProcessTask(w)
         \/ DlqPush(w)
         \/ RedisErrorSleep(w)
         \/ RedisPing(w)

SpecWorkers == InitWorkers /\ [][NextWorkers]_vars

\* The query gateway and the pipeline runs on one store and one Redis.
NextGateway ==
    \/ RedisGoesDown
    \/ RedisComesBack
    \/ \E session \in BOOLEAN, cve_ids \in MappingResults : PipelineStart(session, cve_ids)
    \/ \E ok \in BOOLEAN :
         PersistMapping(ok) \/ PersistEpss(ok) \/ PersistCvss(ok) \/ PersistAnalysis(ok)
    \/ \E req \in PackageRequests : QueryStart(req)
    \/ QueryCacheGet
    \/ \E ok \in BOOLEAN : QueryForceDelete(ok) \/ QueryFind(ok)
    \/ QueryForceSubmit
    \/ QueryNotFoundSubmit
    \/ QueryCacheSet
    \/ QueryReturn
    \/ \E k \in CacheKeys : CacheExpire(k)

\* no worker is running; Redis is reachable or not
InitQuery == InitWith({}, "connect")

SpecGateway == InitQuery /\ [][NextGateway]_vars

\* _poll_for_analysis_results has been called for the package while
\* pipeline runs write to the store; Redis is reachable.
InitPolling ==
    /\ InitGatewayAt("poll", [package |-> "lodash", cve_id |-> 0, force |-> FALSE])
    /\ InitCache(FALSE, {EmptyCache})
    /\ InitWorkerAt({}, "loop")
    /\ InitUnits

NextPolling ==
    \/ \E session \in BOOLEAN, cve_ids \in MappingResults : PipelineStart(session, cve_ids)
    \/ \E ok \in BOOLEAN :
         PersistMapping(ok) \/ PersistEpss(ok) \/ PersistCvss(ok) \/ PersistAnalysis(ok)
    \/ PollSleep
    \/ PollTimeout
    \/ \E ok \in BOOLEAN : PollFind(ok)
    \/ QueryCacheSet
    \/ QueryReturn

SpecPolling == InitPolling /\ [][NextPolling]_vars

\* Calls of orchestrate_pipeline with any behaviour of the services and of
\* the database.
NextPipeline ==
    \/ \E session \in BOOLEAN, skip \in BOOLEAN, force \in BOOLEAN :
         OrchestrateStart(session, skip, force, "none")
    \/ \E outcome \in CallOutcomes, ids \in MappingResults \cup {<<>>} :
         MappingAgent("ok", "ok", outcome, ids)
    \/ \E db \in DbOutcomes :
         SaveMapping(db) \/ SaveEpss(db) \/ SaveCvss(db) \/ SaveThreat(db) \/ SaveAnalysis(db)
    \/ EpssBegin("ok") \/ EpssEnd("ok") \/ CvssBegin("ok") \/ CvssEnd("ok")
    \/ \E outcome \in CallOutcomes :
         \/ EpssFetch(outcome) \/ CvssFetch(outcome)
         \/ ThreatAgent("ok", "ok", outcome) \/ AnalysisAgent("ok", "ok", outcome)
    \/ ScoresJoined
    \/ AppendResult
    \/ SessionExit
    \/ OrchestrateEnd

SpecPipeline == InitWith({}, "loop") /\ [][NextPipeline]_vars

\* The entries an earlier call left in Redis for the ids it mapped: every
\* stage cached its records (from the service, or the fallbacks of the
\* mapping, scoring and threat stages); the mapping entry, set first, may
\* have expired since.
CacheAfter(ids, mapped, source) ==
    LET records == [c \in Range(ids) |-> [cve_id |-> c, source |-> source]] IN
    [mapping |-> IF mapped THEN [present |-> TRUE, value |-> ids] ELSE NoEntry,
     epss |-> [present |-> TRUE, value |-> records],
     cvss |-> [present |-> TRUE, value |-> records],
     threat |-> records,
     analysis |-> [c \in Range(ids) |-> [cve_id |-> c, source |-> "service"]]]

WarmCaches ==
    {EmptyCache} \cup
    {CacheAfter(ids, mapped, source) :
        ids \in MappingResults \cup {fallback_cves}, mapped \in BOOLEAN,
        source \in {"service", "fallback"}}

\* One call of orchestrate_pipeline against a working cache that holds what
\* earlier calls left: no database session, a progress callback that
\* returns, every service free to return or raise.
FailOpenCaches ==
    {EmptyCache} \cup {CacheAfter(ids, TRUE, "service") : ids \in MappingResults}

InitCached ==
    /\ InitGatewayAt("idle", NoRequest)
    /\ InitCache(TRUE, WarmCaches)
    /\ InitWorkerAt({}, "loop")
    /\ InitUnits

\* the steps of a call after its start, without a session; ios: what the
\* requests to the cache backend may do
StageSteps(ios) ==
    \/ \E io_get \in ios, io_set \in ios, outcome \in CallOutcomes,
          ids \in MappingResults \cup {<<>>} :
         MappingAgent(io_get, io_set, outcome, ids)
    \/ \E io \in ios : EpssBegin(io) \/ EpssEnd(io) \/ CvssBegin(io) \/ CvssEnd(io)
    \/ \E outcome \in CallOutcomes : EpssFetch(outcome) \/ CvssFetch(outcome)
    \/ \E io_get \in ios, io_set \in ios, outcome \in CallOutcomes :
         ThreatAgent(io_get, io_set, outcome) \/ AnalysisAgent(io_get, io_set, outcome)
    \/ ScoresJoined
    \/ AppendResult
    \/ SessionExit

NextCached ==
    \/ \E force \in BOOLEAN : OrchestrateStart(FALSE, FALSE, force, "none")
    \/ StageSteps({"ok"})

SpecCached == InitCached /\ [][NextCached]_vars

\* The same call with a progress callback that raises at one of its call
\* sites.
NextProgress ==
    \/ \E force \in BOOLEAN, cb \in CallbackSites : OrchestrateStart(FALSE, FALSE, force, cb)
    \/ StageSteps({"ok"})

SpecProgress == InitCached /\ [][NextProgress]_vars

\* The same call with a cache backend whose requests may fail or time out.
NextFailOpen ==
    \/ \E force \in BOOLEAN : OrchestrateStart(FALSE, FALSE, force, "none")
    \/ StageSteps(CacheIo)

\* one call is about to be made; the caches are empty or complete
InitFailOpen ==
    /\ InitGatewayAt("idle", NoRequest)
    /\ InitCache(TRUE, FailOpenCaches)
    /\ InitWorkerAt({}, "loop")
    /\ InitUnits

SpecFailOpen == InitFailOpen /\ [][NextFailOpen]_vars

\* The event loop resumes a worker whose await has finished: the sleeps end,
\* ping and rpush return or raise, blpop returns within its 2 s timeout.
FairSpec ==
    Spec /\ \A w \in Workers : WF_vars(Connect(w) \/ ConnectSleep(w) \/ LoopStep(w))

\* ================================================= components on their own
\* what every step of a component below leaves alone
uKeep == <<redisUp, queue, enqueued, workerVars, storeVars, pipelineVars, queryVars,
           stageVars, cacheVars>>

setKeep == <<uKeep, fetchVars, retryVars, analyzeVars, batchVars, prioritizeVars, poolVars, clientVars>>
fetchKeep == <<uKeep, setVars, retryVars, analyzeVars, batchVars, prioritizeVars, poolVars, clientVars>>
retryKeep == <<uKeep, setVars, fetchVars, analyzeVars, batchVars, prioritizeVars, poolVars, clientVars>>
analyzeKeep == <<uKeep, setVars, fetchVars, retryVars, batchVars, prioritizeVars, poolVars, clientVars>>
batchKeep == <<uKeep, setVars, fetchVars, retryVars, analyzeVars, prioritizeVars, poolVars, clientVars>>
prioritizeKeep == <<uKeep, setVars, fetchVars, retryVars, analyzeVars, batchVars, poolVars, clientVars>>
poolKeep == <<uKeep, setVars, fetchVars, retryVars, analyzeVars, batchVars, prioritizeVars, clientVars>>
clientKeep == <<uKeep, setVars, fetchVars, retryVars, analyzeVars, batchVars, prioritizeVars, poolVars>>

\* -------------------------------------------- AsyncCache.set (cache.py)
\* The values a caller may pass to set: a dict of JSON values, a dict
\* holding a datetime, a set, a dict with a tuple as key, a dict that
\* contains itself, a list nested deeper than the recursion limit.
SetValues == {"dict", "datetime", "set", "tuple_key", "circular", "deep"}

\* cache.py:77-81, 140  json.dumps(value, default=self._serialize): what it
\* raises.  _serialize turns every object json does not know into a string;
\* a key that is not a str, int, float, bool or None is a TypeError, a
\* circular reference a ValueError, too deep a nesting a RecursionError.
DumpsRaises(value) ==
    CASE value = "tuple_key" -> "TypeError"
      [] value = "circular" -> "ValueError"
      [] value = "deep" -> "RecursionError"
      [] OTHER -> "none"

\* cache.py:77-81, 140  the text json.dumps returns
DumpsText(value) ==
    CASE value = "dict" -> "json(dict)"
      [] value = "datetime" -> "json(isoformat)"
      [] value = "set" -> "json(str(set))"
      [] OTHER -> "none"

\* cache.py:141  "except TypeError"
CaughtByDumps(error) == error = "TypeError"

RedisSetOutcomes == {"ok", "timeout", "timeout_late", "error"}

\* cache.py:125-129  set is called; a disabled cache returns at once
SetCall(value) ==
    /\ ac_pc = "idle"
    /\ ac_value' = value
    /\ ac_before' = [entry |-> ac_entry, disabled |-> ac_disabled]
    /\ ac_pc' = IF ac_disabled THEN "returned" ELSE "get_redis"
    /\ UNCHANGED <<ac_payload, ac_disabled, ac_entry, ac_error, ac_trace, setKeep>>

\* cache.py:131-137  get_redis returns the client or raises
SetGetRedis(io) ==
    /\ ac_pc = "get_redis"
    /\ IF io = "ok"
       THEN ac_pc' = "dumps" /\ UNCHANGED ac_disabled
       ELSE ac_pc' = "returned" /\ ac_disabled' = TRUE
    /\ ac_trace' = ac_trace \cup {"get_redis"}
    /\ UNCHANGED <<ac_value, ac_payload, ac_entry, ac_before, ac_error, setKeep>>

\* cache.py:139-143  the value is serialised; a TypeError is logged and set
\* returns, any other exception leaves set
SetDumps ==
    /\ ac_pc = "dumps"
    /\ LET error == DumpsRaises(ac_value) IN
         IF error = "none"
         THEN ac_payload' = DumpsText(ac_value) /\ ac_pc' = "redis_set" /\ UNCHANGED ac_error
         ELSE IF CaughtByDumps(error)
              THEN ac_pc' = "returned" /\ UNCHANGED <<ac_payload, ac_error>>
              ELSE ac_pc' = "raised" /\ ac_error' = error /\ UNCHANGED ac_payload
    /\ ac_trace' = ac_trace \cup {"dumps"}
    /\ UNCHANGED <<ac_value, ac_disabled, ac_entry, ac_before, setKeep>>

\* cache.py:145-160  redis_client.set under wait_for: it stores the
\* payload, or times out (the write may still have reached Redis) or fails,
\* which disables the cache
SetWrite(io) ==
    /\ ac_pc = "redis_set"
    /\ ac_trace' = ac_trace \cup {"redis_set"}
    /\ ac_entry' = IF io \in {"ok", "timeout_late"} THEN ac_payload ELSE ac_entry
    /\ ac_disabled' = (io # "ok")
    /\ ac_pc' = "returned"
    /\ UNCHANGED <<ac_value, ac_payload, ac_before, ac_error, setKeep>>

\* the caller has the result of set; the next call may come
SetDone ==
    /\ ac_pc \in {"returned", "raised"}
    /\ ac_pc' = "idle"
    /\ ac_value' = "none"
    /\ ac_payload' = "none"
    /\ ac_error' = "none"
    /\ ac_trace' = {}
    /\ UNCHANGED <<ac_disabled, ac_entry, ac_before, setKeep>>

NextSet ==
    \/ \E value \in SetValues : SetCall(value)
    \/ \E io \in CacheIo : SetGetRedis(io)
    \/ SetDumps
    \/ \E io \in RedisSetOutcomes : SetWrite(io)
    \/ SetDone

SpecSet == InitWith({}, "loop") /\ [][NextSet]_vars

\* ------------------ EPSSService.fetch_score, CVSSService.fetch_score
\* The identifiers a caller may pass: "CVE-2024-12345" and its variations
\* in prefix, number of digits, kind of digits, and trailing text.
IdTexts ==
    [prefix : {"CVE-", "cve-", " CVE-"},
     year : {3, 4},
     number : {3, 4, 5},
     digits : {"ascii", "arabic-indic"},
     tail : {"", "\n", ";", "\n;"}]

\* (mutant) a validation that accepts every identifier
AcceptsAnyId(cve_id) == TRUE

\* epss_fetcher/app/service.py:22-26, cvss_fetcher/app/service.py:55-58
\* re.match(r'^CVE-\d{4}-\d{4,}$', cve_id): the prefix as written, four
\* digits, at least four digits (\d matches every Unicode decimal digit),
\* and the end of the text or a newline that ends it
validate_cve_id(cve_id) ==
    /\ cve_id.prefix = "CVE-"
    /\ cve_id.year = 4
    /\ cve_id.number >= 4
    /\ cve_id.tail \in {"", "\n"}

\* epss_fetcher/app/service.py:17-20  max_retries of EPSSService
epss_max_retries == 3

\* cvss_fetcher/app/service.py:24-26  max_retries of CVSSService
cvss_max_retries == 2

\* epss_fetcher/app/service.py:44-78  what perplexity.chat and _parse_score
\* end with
ChatOutcomes == {"score", "RuntimeError", "Exception"}

\* cvss_fetcher/app/service.py:124-254  what one NVD request ends with: a
\* CVSS score, status 404, status 403, a body without CVSS data or without
\* vulnerabilities, a timeout, another HTTP error (raise_for_status
\* included), any other exception
NvdOutcomes == {"score", "404", "403", "no_cvss", "no_vulnerabilities",
                "TimeoutException", "HTTPError", "Exception"}

\* cvss_fetcher/app/service.py:60-106  what structured_output gives
\* _fetch_from_perplexity: a text with a score, one without, an exception
PerplexityOutcomes == {"score", "no_score", "raises"}

\* a service is constructed and fetch_score is called
FetchCall(service, allow, cve_id) ==
    /\ f_pc = "idle"
    /\ f_service' = service
    /\ f_allow' = allow
    /\ f_id' = cve_id
    /\ f_pc' = "validate"
    /\ UNCHANGED <<f_attempt, f_requests, f_nvd, f_result, fetchKeep>>

\* epss_fetcher/app/service.py:31-34, cvss_fetcher/app/service.py:111-117
\* the checks before the first request; a rejected call returns a record
\* without a score
FetchValidate ==
    /\ f_pc = "validate"
    /\ IF (f_service = "CVSS" /\ ~f_allow) \/ ~validate_cve_id(f_id)
       THEN /\ f_pc' = "returned"
            /\ f_result' = [source |-> "none",
                            score |-> IF f_service = "EPSS" THEN "0.0" ELSE "none"]
            /\ UNCHANGED f_attempt
       ELSE /\ f_pc' = IF f_service = "EPSS" THEN "chat" ELSE "nvd"
            /\ f_attempt' = 1
            /\ UNCHANGED f_result
    /\ UNCHANGED <<f_service, f_allow, f_id, f_requests, f_nvd, fetchKeep>>

\* epss_fetcher/app/service.py:43-80  one attempt of the EPSS loop
EpssAttempt(outcome) ==
    /\ f_pc = "chat"
    /\ f_requests' = Append(f_requests, "Perplexity")
    /\ IF outcome = "score"
       THEN /\ f_pc' = "returned"
            /\ f_result' = [source |-> "none", score |-> "parsed"]
            /\ UNCHANGED f_attempt
       ELSE IF f_attempt = epss_max_retries
            THEN /\ f_pc' = "returned"
                 /\ f_result' = [source |-> "none", score |-> "0.0"]
                 /\ UNCHANGED f_attempt
            ELSE /\ f_attempt' = f_attempt + 1
                 /\ UNCHANGED <<f_pc, f_result>>
    /\ UNCHANGED <<f_service, f_allow, f_id, f_nvd, fetchKeep>>

\* (mutant) a fetch that falls back after every failed NVD request
FallsBackAtOnce(outcome, nth) == outcome # "score"

\* cvss_fetcher/app/service.py:133-254  the NVD request that just failed
\* with `outcome` is followed by the Perplexity fallback: at once on a 404,
\* otherwise when it was the last attempt
FallsBack(outcome, nth) ==
    /\ outcome # "score"
    /\ outcome = "404" \/ nth = cvss_max_retries

\* cvss_fetcher/app/service.py:222-254  the handlers of the try block:
\* httpx.TimeoutException, httpx.HTTPError, Exception
HandledByFetch(outcome) ==
    outcome \in {"TimeoutException", "HTTPError", "Exception"}

\* what is no exception: a response was read
Responses == {"score", "404", "403", "no_cvss", "no_vulnerabilities"}

\* cvss_fetcher/app/service.py:124-254  one attempt of the NVD loop
NvdAttempt(outcome) ==
    /\ f_pc = "nvd"
    /\ f_requests' = Append(f_requests, "NVD")
    /\ f_nvd' = Append(f_nvd, outcome)
    /\ IF outcome = "score"
       THEN /\ f_pc' = "returned"
            /\ f_result' = [source |-> "NVD", score |-> "baseScore"]
            /\ UNCHANGED f_attempt
       ELSE IF outcome \notin Responses /\ ~HandledByFetch(outcome)
       THEN /\ f_pc' = "raised"
            /\ UNCHANGED <<f_attempt, f_result>>
       ELSE IF FallsBack(outcome, f_attempt)
            THEN /\ f_pc' = "perplexity"
                 /\ UNCHANGED <<f_attempt, f_result>>
            ELSE /\ f_attempt' = f_attempt + 1
                 /\ UNCHANGED <<f_pc, f_result>>
    /\ UNCHANGED <<f_service, f_allow, f_id, fetchKeep>>

\* cvss_fetcher/app/service.py:60-106  _fetch_from_perplexity, whose result
\* fetch_score returns
FetchFromPerplexity(outcome) ==
    /\ f_pc = "perplexity"
    /\ f_requests' = Append(f_requests, "Perplexity")
    /\ f_result' = IF outcome = "score"
                   THEN [source |-> "Perplexity", score |-> "parsed"]
                   ELSE [source |-> "not_found_perplexity", score |-> "none"]
    /\ f_pc' = "returned"
    /\ UNCHANGED <<f_service, f_allow, f_id, f_attempt, f_nvd, fetchKeep>>

\* the caller has the record
FetchDone ==
    /\ f_pc \in {"returned", "raised"}
    /\ f_pc' = "idle"
    /\ f_service' = "none"
    /\ f_allow' = TRUE
    /\ f_id' = NoId
    /\ f_attempt' = 0
    /\ f_requests' = <<>>
    /\ f_nvd' = <<>>
    /\ f_result' = NoScore
    /\ UNCHANGED fetchKeep

NextFetch ==
    \/ \E service \in {"EPSS", "CVSS"}, allow \in BOOLEAN, cve_id \in IdTexts :
         FetchCall(service, allow, cve_id)
    \/ FetchValidate
    \/ \E outcome \in ChatOutcomes : EpssAttempt(outcome)
    \/ \E outcome \in NvdOutcomes : NvdAttempt(outcome)
    \/ \E outcome \in PerplexityOutcomes : FetchFromPerplexity(outcome)
    \/ FetchDone

SpecFetch == InitWith({}, "loop") /\ [][NextFetch]_vars

\* ------------------------- the retry policy (common_lib/retry_config.py)
\* what one HTTP request ends with: a status, or a transport exception
RequestOutcomes == {"200", "500", "400", "ConnectError", "ReadTimeout"}

\* retry_config.py:53, 69  stop_after_attempt(3)
stop_after_attempt == 3

\* the requests a call can make: one per attempt
RequestScripts == [1..stop_after_attempt -> RequestOutcomes]

\* What is wrapped.  "plain" is a function that lets the exception of the
\* request pass (tests/verify_retry.py:12-23); "GPT5Client.chat" is the
\* decorated method (ai_clients/gpt5.py:37-150).
RetryTargets == {"plain", "GPT5Client.chat"}

\* response.raise_for_status() and the transport: the httpx exception a
\* request outcome stands for
HttpxError(outcome) ==
    CASE outcome = "200" -> NoError
      [] outcome \in {"ConnectError", "ReadTimeout"} -> [type |-> outcome, status |-> 0]
      [] outcome = "500" -> [type |-> "HTTPStatusError", status |-> 500]
      [] outcome = "400" -> [type |-> "HTTPStatusError", status |-> 400]

\* ai_clients/gpt5.py:108-150  chat converts what its try block raises:
\* HTTPStatusError and every other httpx.HTTPError (ConnectError and
\* ReadTimeout are such) become RuntimeError
ChatRaises(error) ==
    IF error.type \in {"HTTPStatusError", "ConnectError", "ReadTimeout"}
    THEN [type |-> "RuntimeError", status |-> 0]
    ELSE error

\* the exception the wrapped function raises to the policy
TargetRaises(target, outcome) ==
    IF target = "GPT5Client.chat" THEN ChatRaises(HttpxError(outcome))
    ELSE HttpxError(outcome)

\* retry_config.py:15-37  _is_retryable_exception
is_retryable_exception(exc) ==
    \/ exc.type = "ConnectError"
    \/ exc.type = "ReadTimeout"
    \/ exc.type = "HTTPStatusError" /\ 500 <= exc.status /\ exc.status < 600

\* the wrapped function is called
RetryCall(target, script) ==
    /\ r_pc = "idle"
    /\ r_target' = target
    /\ r_script' = script
    /\ r_pc' = "attempt"
    /\ UNCHANGED <<r_attempts, r_error, retryKeep>>

\* retry_config.py:52-57  one attempt: the result is returned; an exception
\* that is retryable is followed by a wait unless it was the last attempt;
\* any other, and the last, is re-raised
RetryAttempt ==
    /\ r_pc = "attempt"
    /\ r_attempts' = r_attempts + 1
    /\ LET exc == TargetRaises(r_target, r_script[r_attempts + 1]) IN
         IF exc = NoError
         THEN r_pc' = "returned" /\ UNCHANGED r_error
         ELSE IF is_retryable_exception(exc) /\ r_attempts + 1 < stop_after_attempt
              THEN r_pc' = "wait" /\ UNCHANGED r_error
              ELSE r_pc' = "raised" /\ r_error' = exc
    /\ UNCHANGED <<r_target, r_script, retryKeep>>

\* retry_config.py:54  wait_exponential: the sleep before the next attempt
RetryWait ==
    /\ r_pc = "wait"
    /\ r_pc' = "attempt"
    /\ UNCHANGED <<r_target, r_script, r_attempts, r_error, retryKeep>>

\* the caller has the result or the exception
RetryDone ==
    /\ r_pc \in {"returned", "raised"}
    /\ r_pc' = "idle"
    /\ r_target' = "none"
    /\ r_script' = <<>>
    /\ r_attempts' = 0
    /\ r_error' = NoError
    /\ UNCHANGED retryKeep

NextRetry ==
    \/ \E target \in RetryTargets, script \in RequestScripts : RetryCall(target, script)
    \/ RetryAttempt
    \/ RetryWait
    \/ RetryDone

SpecRetry == InitWith({}, "loop") /\ [][NextRetry]_vars

\* ---------------------------- AnalyzerService.analyze and its fallback
\* Scores are exact decimals: cvss_score in tenths (98 is 9.8), epss_score
\* in thousandths (970 is 0.97), risk_score in thousandths (8000 is 8.0).
CvssScores == {NoneScore, 0, 50, 75, 98, 100}
EpssScores == {NoneScore, 0, 500, 970, 1000}

\* analyzer/app/service.py:342-358, 93-96, 218-220  the levels
\* generate_analysis returns
AiRiskLevels == {"CRITICAL", "HIGH", "MEDIUM", "LOW"}

\* analyzer/app/service.py:391-397  AI_RISK_SCORE_MAP, in tenths
AI_RISK_SCORE_MAP(level) ==
    CASE level = "CRITICAL" -> 95
      [] level = "HIGH" -> 75
      [] level = "MEDIUM" -> 50
      [] level = "LOW" -> 20

Min(a, b) == IF a <= b THEN a ELSE b
Max(a, b) == IF a >= b THEN a ELSE b

\* analyzer/app/service.py:399-427  cvss * 0.4 + epss * 10 * 0.3 +
\* ai_score * 0.3, None read as 0.0, clamped to 0..10; in thousandths
calculate_weighted_score(cvss_score, epss_score, ai_risk_level) ==
    LET cvss_val == IF cvss_score = NoneScore THEN 0 ELSE cvss_score
        epss_val == IF epss_score = NoneScore THEN 0 ELSE epss_score
        ai_score == AI_RISK_SCORE_MAP(ai_risk_level)
    IN Min(10000, Max(0, cvss_val * 40 + epss_val * 3 + ai_score * 30))

\* analyzer/app/service.py:429-438  score_to_risk_level
score_to_risk_level(score) ==
    IF score >= 8000 THEN "CRITICAL"
    ELSE IF score >= 6000 THEN "HIGH"
    ELSE IF score >= 4000 THEN "MEDIUM"
    ELSE "LOW"

\* agent_orchestrator.py:104-114, main.py:70-82  _fallback_analysis
\* constructs AnalyzerOutput(risk_level="Medium", ...)
fallback_analysis == [risk_level |-> "Medium", risk_score |-> 0, source |-> "fallback"]

\* main.py:163-170, agent_orchestrator.py:284-291  the AnalyzerInput of the
\* current CVE is built and analyze is called through _safe_call
AnalyzeCall(cvss_score, epss_score) ==
    /\ an_pc = "idle"
    /\ an_payload' = [cvss_score |-> cvss_score, epss_score |-> epss_score]
    /\ an_pc' = "analyze"
    /\ UNCHANGED <<an_output, an_item, an_error, analyzeKeep>>

\* analyzer/app/service.py:450-483  analyze returns its AnalyzerOutput, or
\* raises; then _safe_call calls _fallback_analysis, and AnalyzerOutput
\* raises ValidationError when a required field is not supplied
Analyze(ai_risk_level, outcome) ==
    /\ an_pc = "analyze"
    /\ LET risk_score == calculate_weighted_score(an_payload.cvss_score,
                                                  an_payload.epss_score, ai_risk_level)
       IN IF outcome = "returns"
          THEN /\ an_output' = [risk_level |-> score_to_risk_level(risk_score),
                                risk_score |-> risk_score, source |-> "service"]
               /\ an_pc' = "append"
               /\ UNCHANGED an_error
          ELSE IF AnalyzerOutputRequired \subseteq FallbackAnalysisFields
               THEN /\ an_output' = fallback_analysis
                    /\ an_pc' = "append"
                    /\ UNCHANGED an_error
               ELSE /\ an_error' = "ValidationError"
                    /\ an_pc' = "raised"
                    /\ UNCHANGED an_output
    /\ UNCHANGED <<an_payload, an_item, analyzeKeep>>

\* main.py:179-196, agent_orchestrator.py:320-340  the item is appended
\* with analysis_output.dict() as its "analysis"
AppendAnalysis ==
    /\ an_pc = "append"
    /\ an_item' = an_output
    /\ an_pc' = "returned"
    /\ UNCHANGED <<an_payload, an_output, an_error, analyzeKeep>>

\* the item is in the result, or the exception with the caller
AnalyzeDone ==
    /\ an_pc \in {"returned", "raised"}
    /\ an_pc' = "idle"
    /\ an_payload' = [cvss_score |-> NoneScore, epss_score |-> NoneScore]
    /\ an_output' = NoOutput
    /\ an_item' = NoOutput
    /\ an_error' = "none"
    /\ UNCHANGED analyzeKeep

NextAnalyze ==
    \/ \E cvss_score \in CvssScores, epss_score \in EpssScores :
         AnalyzeCall(cvss_score, epss_score)
    \/ \E ai_risk_level \in AiRiskLevels, outcome \in CallOutcomes :
         Analyze(ai_risk_level, outcome)
    \/ AppendAnalysis
    \/ AnalyzeDone

SpecAnalyze == InitWith({}, "loop") /\ [][NextAnalyze]_vars

\* ------------------- _epss_agent, _cvss_agent (agent_orchestrator.py)
\* The CVE ids a run may be given; the two agents have the same code, and
\* the runs are for the same package and version, so there is one key.
BatchIds == {1, 2, 3}

BatchRunning(r) == bt_pc[r] \in {"get", "fetch", "set"}

\* agent_orchestrator.py:399-404  missing_ids: the ids of cve_list that are
\* not keys of the results taken from the cache
MissingOf(cve_list, results) == cve_list \ results

\* agent_orchestrator.py:416, common_lib/cache.py:149  redis SET: the map
\* of the run replaces what is under the key
SetValue(results) == [hit |-> TRUE, ids |-> results]

\* agent_orchestrator.py:383-393  the agent is called; with force the cache
\* is not read and the results start empty
BatchCall(r, cve_list, force) ==
    /\ bt_pc[r] = "idle"
    /\ bt_cve_list' = [bt_cve_list EXCEPT ![r] = cve_list]
    /\ bt_force' = [bt_force EXCEPT ![r] = force]
    /\ bt_overlap' = (bt_overlap \/ \E o \in BatchRuns \ {r} : BatchRunning(o))
    /\ IF force
       THEN /\ bt_missing_ids' = [bt_missing_ids EXCEPT ![r] = MissingOf(cve_list, {})]
            /\ bt_pc' = [bt_pc EXCEPT ![r] = IF cve_list = {} THEN "set" ELSE "fetch"]
       ELSE /\ bt_pc' = [bt_pc EXCEPT ![r] = "get"]
            /\ UNCHANGED bt_missing_ids
    /\ UNCHANGED <<bt_cached, bt_results, bt_stored, bt_cache, batchKeep>>

\* agent_orchestrator.py:394-404, 415  await self._cache.get(cache_key):
\* the results start as a copy of the cached map; with nothing missing and
\* a cache hit the agent returns without a set
BatchGet(r) ==
    /\ bt_pc[r] = "get"
    /\ bt_cached' = [bt_cached EXCEPT ![r] = bt_cache]
    /\ bt_results' = [bt_results EXCEPT ![r] = bt_cache.ids]
    /\ LET missing_ids == MissingOf(bt_cve_list[r], bt_cache.ids) IN
        /\ bt_missing_ids' = [bt_missing_ids EXCEPT ![r] = missing_ids]
        /\ bt_pc' = [bt_pc EXCEPT ![r] =
                        IF missing_ids # {} THEN "fetch"
                        ELSE IF ~bt_cache.hit THEN "set" ELSE "returned"]
    /\ UNCHANGED <<bt_cve_list, bt_force, bt_stored, bt_overlap, bt_cache, batchKeep>>

\* agent_orchestrator.py:406-413  one round of the loop: the score of the
\* next missing id is awaited (from the service or the fallback) and put
\* into the results
BatchFetch(r) ==
    /\ bt_pc[r] = "fetch"
    /\ LET cve_id == CHOOSE c \in bt_missing_ids[r] : \A d \in bt_missing_ids[r] : c <= d IN
        /\ bt_results' = [bt_results EXCEPT ![r] = @ \cup {cve_id}]
        /\ bt_missing_ids' = [bt_missing_ids EXCEPT ![r] = @ \ {cve_id}]
        /\ bt_pc' = [bt_pc EXCEPT ![r] = IF bt_missing_ids[r] = {cve_id} THEN "set" ELSE "fetch"]
    /\ UNCHANGED <<bt_cve_list, bt_force, bt_cached, bt_stored, bt_overlap, bt_cache, batchKeep>>

\* agent_orchestrator.py:415-417  await self._cache.set(cache_key,
\* epss_results), then return
BatchSet(r) ==
    /\ bt_pc[r] = "set"
    /\ bt_cache' = SetValue(bt_results[r])
    /\ bt_stored' = [bt_stored EXCEPT ![r] = bt_results[r]]
    /\ bt_pc' = [bt_pc EXCEPT ![r] = "returned"]
    /\ UNCHANGED <<bt_cve_list, bt_force, bt_cached, bt_results, bt_missing_ids, bt_overlap,
                   batchKeep>>

\* no run is in progress any more: the next runs may come; the cache keeps
\* its value
BatchDone ==
    /\ \A r \in BatchRuns : ~BatchRunning(r)
    /\ \E r \in BatchRuns : bt_pc[r] = "returned"
    /\ bt_pc' = [r \in BatchRuns |-> "idle"]
    /\ bt_cve_list' = [r \in BatchRuns |-> {}]
    /\ bt_force' = [r \in BatchRuns |-> FALSE]
    /\ bt_cached' = [r \in BatchRuns |-> NoneCached]
    /\ bt_results' = [r \in BatchRuns |-> {}]
    /\ bt_missing_ids' = [r \in BatchRuns |-> {}]
    /\ bt_stored' = [r \in BatchRuns |-> {}]
    /\ bt_overlap' = FALSE
    /\ UNCHANGED <<bt_cache, batchKeep>>

NextBatch ==
    \/ \E r \in BatchRuns, cve_list \in SUBSET BatchIds, force \in BOOLEAN :
         BatchCall(r, cve_list, force)
    \/ \E r \in BatchRuns : BatchGet(r)
    \/ \E r \in BatchRuns : BatchFetch(r)
    \/ \E r \in BatchRuns : BatchSet(r)
    \/ BatchDone

SpecBatch == InitWith({}, "loop") /\ [][NextBatch]_vars

\* ------------------------- QueryService._prioritize (query_api service.py)
\* risk_score values in tenths: None or no such key, 0.0, 4.9, 5.0, 7.9,
\* 8.0, 10.0
RiskScores == {NoneScore, 0, 49, 50, 79, 80, 100}

\* cvss_score values of a row in tenths, None included
RowCvssScores == {NoneScore, 98}

\* query_api/app/service.py:255  prioritized[:10]
PrioritizeLimit == 10

\* the longest list given to _prioritize
MaxRows == PrioritizeLimit + 1

\* query_api/app/repository.py:71-82  the rows of a lookup, in the order of
\* the result: cve_id (here the position in the result), risk_score and
\* cvss_score; short lists with every score, long ones with two scores
RowsOf(scores) ==
    [i \in 1..Len(scores) |->
        [cve_id |-> i, risk_score |-> scores[i].risk, cvss_score |-> scores[i].cvss]]

ShortScores ==
    UNION {[1..n -> [risk : RiskScores, cvss : {NoneScore}]] : n \in 0..2}
        \cup [1..2 -> [risk : {NoneScore, 80}, cvss : RowCvssScores]]

LongScores ==
    UNION {[1..n -> [risk : {NoneScore, 80}, cvss : {98}]] : n \in (PrioritizeLimit - 1)..MaxRows}

RowLists == {RowsOf(scores) : scores \in ShortScores \cup LongScores}

\* query_api/app/service.py:232  float(item.get("risk_score") or 0.0)
RiskScoreOf(item) == IF item.risk_score = NoneScore THEN 0 ELSE item.risk_score

\* (mutant) labels with the P1 threshold at 7.9
LabelFromLower(risk_score) ==
    IF risk_score >= 79 THEN "P1" ELSE IF risk_score >= 50 THEN "P2" ELSE "P3"

\* query_api/app/service.py:238-243  risk_label from risk_score
RiskLabel(risk_score) ==
    IF risk_score >= 80 THEN "P1" ELSE IF risk_score >= 50 THEN "P2" ELSE "P3"

\* query_api/app/service.py:245-252  {**item, "cvss_score": ..., "risk_score":
\* ..., "risk_label": ...}
PrioritizedEntry(item) ==
    [cve_id |-> item.cve_id, cvss_score |-> item.cvss_score,
     risk_score |-> RiskScoreOf(item), risk_label |-> RiskLabel(RiskScoreOf(item))]

\* query_api/app/service.py:254  list.sort(key=risk_score, reverse=True): a
\* stable sort, entries of equal risk_score keep their order
RECURSIVE SortByRiskScore(_)
SortByRiskScore(entries) ==
    IF entries = <<>> THEN <<>>
    ELSE LET rest == SortByRiskScore(Tail(entries))
             head == Head(entries)
             Before(e) == e.risk_score > head.risk_score
             NotBefore(e) == ~Before(e)
         IN SelectSeq(rest, Before) \o <<head>> \o SelectSeq(rest, NotBefore)

\* query_api/app/service.py:224-255  _prioritize
Prioritized(results) ==
    LET entries == [i \in 1..Len(results) |-> PrioritizedEntry(results[i])]
        sorted == SortByRiskScore(entries)
    IN SubSeq(sorted, 1, Min(Len(sorted), PrioritizeLimit))

\* query_api/app/service.py:124-125  _prioritize is called with the rows
PrioritizeCall(results) ==
    /\ pr_pc = "idle"
    /\ pr_results' = results
    /\ pr_pc' = "prioritize"
    /\ UNCHANGED <<pr_prioritized, prioritizeKeep>>

\* query_api/app/service.py:227-255  the body of _prioritize
Prioritize ==
    /\ pr_pc = "prioritize"
    /\ pr_prioritized' = Prioritized(pr_results)
    /\ pr_pc' = "returned"
    /\ UNCHANGED <<pr_results, prioritizeKeep>>

\* the list is with the caller
PrioritizeDone ==
    /\ pr_pc = "returned"
    /\ pr_pc' = "idle"
    /\ pr_results' = <<>>
    /\ pr_prioritized' = <<>>
    /\ UNCHANGED prioritizeKeep

NextPrioritize ==
    \/ \E results \in RowLists : PrioritizeCall(results)
    \/ Prioritize
    \/ PrioritizeDone

SpecPrioritize == InitWith({}, "loop") /\ [][NextPrioritize]_vars

\* ------------------------------ get_redis, close_redis (common_lib/cache.py)
\* the connections from_url may return, and the from_url calls, that are
\* followed
MaxConnections == 3
MaxInvocations == 3

\* redis.from_url returns a client, or raises (ValueError for a URL without
\* a redis://, rediss:// or unix:// scheme)
FromUrlOutcomes == {"client", "raises"}

\* (mutant) a get_redis that does not look again once it has the lock
CreatesAnyway(pool) == TRUE

\* common_lib/cache.py:35  if _redis_pool is None, with the lock held
StillNone(pool) == pool = 0

\* common_lib/cache.py:27-33, 43  get_redis is called: with a connection it
\* is returned; without one the lock is wanted
GetRedisCall(c) ==
    /\ gr_pc[c] = "idle"
    /\ gr_saw_none' = [gr_saw_none EXCEPT ![c] = (gr_redis_pool = 0)]
    /\ IF gr_redis_pool # 0
       THEN /\ gr_pc' = [gr_pc EXCEPT ![c] = "returned"]
            /\ gr_received' = [gr_received EXCEPT ![c] = gr_redis_pool]
            /\ gr_epoch' = [gr_epoch EXCEPT !.handed = @ \cup {gr_redis_pool}]
       ELSE /\ gr_pc' = [gr_pc EXCEPT ![c] = "acquire"]
            /\ UNCHANGED <<gr_received, gr_epoch>>
    /\ UNCHANGED <<gr_redis_pool, gr_lock, gr_closing, gr_next, poolKeep>>

\* common_lib/cache.py:34-38, 43  async with _lock: the lock is free and
\* taken; the second check; redis.from_url is invoked, or the connection
\* another coroutine made is returned
GetRedisAcquire(c) ==
    /\ gr_pc[c] = "acquire"
    /\ gr_lock = 0
    /\ IF StillNone(gr_redis_pool)
       THEN /\ gr_epoch.invoked < MaxInvocations
            /\ gr_lock' = c
            /\ gr_pc' = [gr_pc EXCEPT ![c] = "from_url"]
            /\ gr_epoch' = [gr_epoch EXCEPT !.invoked = @ + 1]
            /\ UNCHANGED gr_received
       ELSE /\ gr_pc' = [gr_pc EXCEPT ![c] = "returned"]
            /\ gr_received' = [gr_received EXCEPT ![c] = gr_redis_pool]
            /\ gr_epoch' = [gr_epoch EXCEPT !.handed = @ \cup {gr_redis_pool}]
            /\ UNCHANGED gr_lock
    /\ UNCHANGED <<gr_redis_pool, gr_closing, gr_saw_none, gr_next, poolKeep>>

\* common_lib/cache.py:38-43  await redis.from_url(...) is over: the client
\* is assigned to _redis_pool and returned, or the exception leaves
\* get_redis; the lock is released
GetRedisFromUrl(c, outcome) ==
    /\ gr_pc[c] = "from_url"
    /\ gr_lock' = 0
    /\ IF outcome = "client"
       THEN /\ gr_next <= MaxConnections
            /\ gr_redis_pool' = gr_next
            /\ gr_next' = gr_next + 1
            /\ gr_received' = [gr_received EXCEPT ![c] = gr_next]
            /\ gr_epoch' = [gr_epoch EXCEPT !.created = @ \cup {gr_next},
                                            !.handed = @ \cup {gr_next}]
            /\ gr_pc' = [gr_pc EXCEPT ![c] = "returned"]
       ELSE /\ gr_pc' = [gr_pc EXCEPT ![c] = "raised"]
            /\ UNCHANGED <<gr_redis_pool, gr_next, gr_received, gr_epoch>>
    /\ UNCHANGED <<gr_closing, gr_saw_none, poolKeep>>

\* common_lib/cache.py:46-51  close_redis is called: without a connection it
\* returns, with one it awaits close()
CloseRedisCall(c) ==
    /\ gr_pc[c] = "idle"
    /\ IF gr_redis_pool # 0
       THEN /\ gr_pc' = [gr_pc EXCEPT ![c] = "closing"]
            /\ gr_closing' = [gr_closing EXCEPT ![c] = gr_redis_pool]
       ELSE UNCHANGED <<gr_pc, gr_closing>>
    /\ UNCHANGED <<gr_redis_pool, gr_lock, gr_received, gr_saw_none, gr_next, gr_epoch, poolKeep>>

\* common_lib/cache.py:51-52  close() is over: _redis_pool = None
CloseRedisReset(c) ==
    /\ gr_pc[c] = "closing"
    /\ gr_redis_pool' = 0
    /\ gr_epoch' = (IF gr_redis_pool # 0 THEN NewEpoch ELSE gr_epoch)
    /\ gr_closing' = [gr_closing EXCEPT ![c] = 0]
    /\ gr_pc' = [gr_pc EXCEPT ![c] = "idle"]
    /\ UNCHANGED <<gr_lock, gr_received, gr_saw_none, gr_next, poolKeep>>

\* the caller has the connection, or the exception
GetRedisDone(c) ==
    /\ gr_pc[c] \in {"returned", "raised"}
    /\ gr_pc' = [gr_pc EXCEPT ![c] = "idle"]
    /\ gr_received' = [gr_received EXCEPT ![c] = 0]
    /\ gr_saw_none' = [gr_saw_none EXCEPT ![c] = FALSE]
    /\ UNCHANGED <<gr_redis_pool, gr_lock, gr_closing, gr_next, gr_epoch, poolKeep>>

NextPool ==
    \/ \E c \in Coroutines : GetRedisCall(c)
    \/ \E c \in Coroutines : GetRedisAcquire(c)
    \/ \E c \in Coroutines, outcome \in FromUrlOutcomes : GetRedisFromUrl(c, outcome)
    \/ \E c \in Coroutines : CloseRedisCall(c)
    \/ \E c \in Coroutines : CloseRedisReset(c)
    \/ \E c \in Coroutines : GetRedisDone(c)

SpecPool == InitWith({}, "loop") /\ [][NextPool]_vars

\* ------------- get_redis_client, close_redis_client (query_api redis_ops.py)
\* the clients from_url may return that are followed
MaxClients == 3

\* what the initialization meets: no URL configured, from_url raising, or
\* a client
ClientOutcomes == {"no_url", "raises", "client"}

\* ping answers, or raises
PingOutcomes == {"pong", "raises"}

\* query_api/app/redis_ops.py:20-40, 47-49  get_redis_client is called: an
\* existing _redis_client is returned; else, without a URL or with from_url
\* raising None is returned; else the new client is assigned to
\* _redis_client and its ping awaited
GetRedisClientCall(c, outcome) ==
    /\ gc_pc[c] = "idle"
    /\ IF gc_redis_client # 0
       THEN /\ gc_returned' = [gc_returned EXCEPT ![c] = gc_redis_client]
            /\ gc_pc' = [gc_pc EXCEPT ![c] = "returned"]
            /\ UNCHANGED <<gc_redis_client, gc_pinging, gc_next>>
       ELSE IF outcome = "client"
            THEN /\ gc_next <= MaxClients
                 /\ gc_redis_client' = gc_next
                 /\ gc_next' = gc_next + 1
                 /\ gc_pinging' = [gc_pinging EXCEPT ![c] = gc_next]
                 /\ gc_pc' = [gc_pc EXCEPT ![c] = "ping"]
                 /\ UNCHANGED gc_returned
            ELSE /\ gc_returned' = [gc_returned EXCEPT ![c] = 0]
                 /\ gc_pc' = [gc_pc EXCEPT ![c] = "returned"]
                 /\ UNCHANGED <<gc_redis_client, gc_pinging, gc_next>>
    /\ UNCHANGED <<gc_pinged, clientKeep>>

\* query_api/app/redis_ops.py:42-49  await _redis_client.ping() is over:
\* the module's client is returned, or the exception is logged and None
\* returned; _redis_client is read again after the await
GetRedisClientPing(c, outcome) ==
    /\ gc_pc[c] = "ping"
    /\ IF outcome = "pong"
       THEN /\ gc_pinged' = gc_pinged \cup {gc_pinging[c]}
            /\ gc_returned' = [gc_returned EXCEPT ![c] = gc_redis_client]
       ELSE /\ gc_returned' = [gc_returned EXCEPT ![c] = 0]
            /\ UNCHANGED gc_pinged
    /\ gc_pinging' = [gc_pinging EXCEPT ![c] = 0]
    /\ gc_pc' = [gc_pc EXCEPT ![c] = "returned"]
    /\ UNCHANGED <<gc_redis_client, gc_next, clientKeep>>

\* query_api/app/redis_ops.py:52-62  close_redis_client: close() and
\* _redis_client = None; when close() raises the client stays
CloseRedisClient(ok) ==
    /\ gc_redis_client # 0
    /\ gc_redis_client' = (IF ok THEN 0 ELSE gc_redis_client)
    /\ UNCHANGED <<gc_pc, gc_returned, gc_pinging, gc_pinged, gc_next, clientKeep>>

\* the caller has the client, or None
GetRedisClientDone(c) ==
    /\ gc_pc[c] = "returned"
    /\ gc_pc' = [gc_pc EXCEPT ![c] = "idle"]
    /\ gc_returned' = [gc_returned EXCEPT ![c] = 0]
    /\ UNCHANGED <<gc_redis_client, gc_pinging, gc_pinged, gc_next, clientKeep>>

NextClient ==
    \/ \E c \in Callers, outcome \in ClientOutcomes : GetRedisClientCall(c, outcome)
    \/ \E c \in Callers, outcome \in PingOutcomes : GetRedisClientPing(c, outcome)
    \/ \E ok \in BOOLEAN : CloseRedisClient(ok)
    \/ \E c \in Callers : GetRedisClientDone(c)

SpecClient == InitWith({}, "loop") /\ [][NextClient]_vars

\* ============================================================== properties
DeliveredIds == {delivered[i][1] : i \in DOMAIN delivered}
DeliveryCount(j) == Cardinality({i \in DOMAIN delivered : delivered[i][1] = j})
QueueCount(j) == Cardinality({i \in DOMAIN queue : queue[i].id = j})
FailedRecords(j) == {i \in DOMAIN failed : failed[i].id = j}
Held(j) == \E w \in Workers : task_json[w].id = j
LoopPcs == {"loop", "blpop", "process", "dlq_push", "redis_error_sleep", "redis_ping"}

\* the job text is a request process_task accepts: a JSON object with a
\* package or a cve_id
WellFormed(text) ==
    /\ text.kind = "object"
    /\ DictGet(text.pairs, "package") # "" \/ DictGet(text.pairs, "cve_id") # ""

\* C1: with several workers looping on blpop, every enqueued job is either
\* still on analysis_tasks or was handed to exactly one worker: no job is
\* handed out twice, no job is held by two workers, no job disappears.
C1_ExactlyOneWorker ==
    /\ \A j \in 1..Len(enqueued) : QueueCount(j) + DeliveryCount(j) = 1
    /\ \A v, w \in Workers :
          (v # w /\ task_json[v].id # 0) => task_json[v].id # task_json[w].id
    /\ \A w \in Workers : task_json[w].id # 0 =>
          \E i \in DOMAIN delivered : delivered[i] = <<task_json[w].id, w>>

\* C1 witness: two jobs were handed to two different workers
C1_Witness ==
    /\ Len(delivered) >= 2
    /\ delivered[1][2] # delivered[2][2]
    /\ delivered[1][1] # delivered[2][1]

\* C9: jobs are handed to workers in the order they were enqueued (the i-th
\* delivery is the i-th job pushed, the list holds the rest in order), and
\* a worker pops its next job only after process_task ended for the one
\* before; jobs of different workers may finish in any order.
C9_FifoDelivery ==
    /\ \A i \in DOMAIN delivered : delivered[i][1] = i
    /\ \A i \in DOMAIN queue : queue[i].id = Len(delivered) + i
    /\ \A i \in DOMAIN queue : queue[i].text = enqueued[queue[i].id]
    /\ \A i, k \in DOMAIN delivered :
          (i < k /\ delivered[i][2] = delivered[k][2]) =>
              (result[delivered[i][1]] # "none" /\ ~Held(delivered[i][1]))

\* C9 witness: the job enqueued second has been processed while the job
\* enqueued (and delivered) first is still in flight at another worker
C9_Witness ==
    /\ Len(delivered) >= 2
    /\ result[2] # "none"
    /\ result[1] = "none"
    /\ Held(1)

\* ---------------------------------------------------------------- one worker
\* the job left the worker: it was handed out and no worker holds it
Finished(j) == j \in DeliveredIds /\ ~Held(j)

\* C2: no job is silently lost: every job a worker popped and is done with
\* ended with orchestrate_pipeline completed or has a record on
\* analysis_tasks:failed.
C2_NoJobLost ==
    \A j \in DeliveredIds :
        Finished(j) => (result[j] = "completed" \/ FailedRecords(j) # {})

\* the dead-letter text keeps every member of the original object and has a
\* non-empty error message and timestamp; an original that is no JSON object
\* is kept as it is
Preserves(original, record) ==
    IF original.kind = "object"
    THEN /\ record.kind = "object"
         /\ \A i \in DOMAIN original.pairs :
                /\ HasKey(record.pairs, original.pairs[i][1])
                /\ DictGet(record.pairs, original.pairs[i][1]) = original.pairs[i][2]
         /\ DictGet(record.pairs, "error_msg") # ""
         /\ DictGet(record.pairs, "error_timestamp") # ""
    ELSE record = original

\* C3: whenever process_task raised for a popped job, exactly one record of
\* it is on analysis_tasks:failed, with every field of the original payload
\* unchanged plus a non-empty error message and timestamp (the original
\* text itself when it cannot be parsed or augmented).
C3_DeadLetterPreserved ==
    \A j \in DeliveredIds :
        (Finished(j) /\ Raised(result[j])) =>
            /\ Cardinality(FailedRecords(j)) = 1
            /\ \A i \in FailedRecords(j) : Preserves(enqueued[j], failed[i].text)

\* C4: a well-formed job ends with its pipeline completed and no record on
\* analysis_tasks:failed; only jobs whose processing raised are dead-lettered.
C4_WellFormedJobNotDeadLettered ==
    /\ \A i \in DOMAIN failed : Raised(result[failed[i].id])
    /\ \A j \in DeliveredIds :
          (Finished(j) /\ WellFormed(enqueued[j])) =>
              (result[j] = "completed" /\ FailedRecords(j) = {})

\* C5: a job whose processing raised does not end the worker: the worker
\* that popped it is still in its loop unless a shutdown signal or a
\* cancellation arrived, and after the dead-letter push it comes back to
\* blpop.
C5_PoisonJobKeepsWorker ==
    /\ [](\A i \in DOMAIN delivered :
            Raised(result[delivered[i][1]]) =>
                (\/ pc[delivered[i][2]] \in LoopPcs
                 \/ stop_event[delivered[i][2]]
                 \/ cancelled[delivered[i][2]]))
    /\ \A w \in Workers :
          (pc[w] = "dlq_push") ~> (pc[w] = "blpop" \/ stop_event[w] \/ cancelled[w])

\* C5 witness: a worker popped another job after one it popped had raised
C5_Witness ==
    \E i, k \in DOMAIN delivered :
        /\ i < k
        /\ delivered[i][2] = delivered[k][2]
        /\ Raised(result[delivered[i][1]])

\* C6: the job a worker held when the shutdown signal arrived is processed
\* to completion or dead-lettered before the worker leaves its loop.
C6_InFlightJobSettledOnShutdown ==
    \A w \in Workers :
        (pc[w] \in {"close", "stopped"} /\ signal_task[w] # 0 /\ ~cancelled[w]) =>
            (result[signal_task[w]] = "completed" \/ FailedRecords(signal_task[w]) # {})

\* C7 as stated: a worker is out of its loop only because of a shutdown
\* signal or a cancellation, never because Redis was unreachable.
C7_NeverExitsOnOutage ==
    \A w \in Workers :
        pc[w] \in {"exited", "close", "stopped"} => (stop_event[w] \/ cancelled[w])

\* C7 amended: an unreachable Redis ends the worker only at start-up, when
\* all max_connection_retries attempts failed and before any job was
\* popped; in the dequeue loop a Redis error never ends it: the worker
\* sleeps, pings and comes back to blpop (or to close, if told to stop).
C7_ExitsOnlyAfterStartupRetries ==
    /\ [](\A w \in Workers :
            /\ pc[w] = "exited" =>
                  (attempt[w] = max_connection_retries
                   /\ \A i \in DOMAIN delivered : delivered[i][2] # w)
            /\ pc[w] = "connect_sleep" => attempt[w] < max_connection_retries
            /\ pc[w] \in {"close", "stopped"} => (stop_event[w] \/ cancelled[w]))
    /\ \A w \in Workers :
          (pc[w] \in {"redis_error_sleep", "redis_ping"}) ~> (pc[w] \in {"blpop", "close"})

\* C7 witness: after a Redis error in the dequeue loop the worker is about
\* to ping while Redis is reachable again
C7_Witness == pc[1] = "redis_ping" /\ redisUp /\ delivered # <<>>

\* C8: the call of submit_analysis_job made by QueryService.query never
\* raises, and whenever it returned False the query ends with
\* ExternalServiceError, on the force path and on the not-found path alike.
C8_SubmitFailureIsServiceUnavailable ==
    /\ q_submit \in {"none", "True", "False"}
    /\ (q_pc = "done" /\ q_submit = "False") => q_outcome = "ExternalServiceError"

\* C10: a response returned for a package has, for every CVE id of the
\* mapping, the EPSS score, the CVSS score and the analysis of a pipeline run.
C10_NoPartialResult ==
    (q_pc = "done" /\ q_outcome = "response") =>
        \A row \in q_response.rows : row.epss /\ row.cvss /\ row.analysis

\* ------------------------------------------------------------------ polling
\* C11: a query whose lookup found nothing and whose job could be submitted
\* ends with the stored result or, when none appeared, with
\* AnalysisInProgressError after the whole ANALYSIS_MAX_WAIT_TIME was polled.
C11_PollingTimeout ==
    (q_pc = "done" /\ q_lookup = "notfound" /\ q_submit # "False") =>
        /\ q_outcome \in {"response", "AnalysisInProgressError"}
        /\ q_outcome = "AnalysisInProgressError" => elapsed = ANALYSIS_MAX_WAIT_TIME

\* C12: while polling, a poll that finds nothing never ends the request;
\* the first poll that finds rows ends the polling with those rows as the
\* response; AnalysisInProgressError is raised only when the polls of the
\* whole ANALYSIS_MAX_WAIT_TIME found nothing.
C12_NotFoundKeepsPolling ==
    /\ [](/\ q_outcome \in {"none", "response", "AnalysisInProgressError"}
          /\ q_pc \in {"poll", "poll_find"} =>
                (/\ q_outcome = "none"
                 /\ ~q_response.present
                 /\ elapsed <= ANALYSIS_MAX_WAIT_TIME)
          /\ q_outcome = "AnalysisInProgressError" =>
                (elapsed = ANALYSIS_MAX_WAIT_TIME /\ ~q_response.present)
          /\ (q_pc \in {"cache_set", "done"} /\ q_outcome # "AnalysisInProgressError") =>
                (/\ q_response.present
                 /\ q_response.rows # {}
                 /\ elapsed >= ANALYSIS_POLL_INTERVAL))
    /\ [][(q_pc = "poll_find" /\ q_pc' = "poll") =>
             (FindRows(q_req) = {} \/ (poll_error' /\ elapsed' = elapsed))]_vars
    /\ [][(q_pc = "poll_find" /\ q_pc' = "cache_set") =>
             (q_response'.rows = FindRows(q_req) /\ FindRows(q_req) # {})]_vars

\* C12 witness: the rows appeared while the request was polling and were
\* returned by a poll later than the first
C12_Witness ==
    /\ q_pc = "done"
    /\ q_outcome = "response"
    /\ elapsed > ANALYSIS_POLL_INTERVAL
    /\ elapsed < ANALYSIS_MAX_WAIT_TIME

\* C13: AnalysisInProgressError is raised only when the result did not
\* appear; a request whose polls failed with a store error does not end
\* with it.
C13_StoreFailureIsNotInProgress ==
    q_outcome = "AnalysisInProgressError" => ~poll_error

\* ------------------------------------------------------------------ gateway
\* C14: without force, a lookup that found rows is followed by no submit
\* and no poll, only by caching and returning the response; a cache hit is
\* returned without lookup, submit or poll; submit_analysis_job is called
\* only after the lookup reported not-found.
C14_StoredResultReturnedAtOnce ==
    /\ q_lookup = "rows" =>
          (q_pc \in {"cache_set", "done"} /\ q_submit = "none" /\ elapsed = 0)
    /\ (q_outcome = "response" /\ q_lookup = "none" /\ ~q_req.force) =>
          (q_submit = "none" /\ elapsed = 0)
    /\ (q_submit # "none" /\ ~q_req.force) => q_lookup = "notfound"
    /\ q_pc = "notfound_submit" => q_lookup = "notfound"

\* C14 witness: a query without force ended with the rows its lookup found
C14_Witness ==
    /\ q_pc = "done"
    /\ ~q_req.force
    /\ q_lookup = "rows"
    /\ q_outcome = "response"
    /\ q_response.rows # {}

\* C15: a forced query ends either with the ExternalServiceError of a failed
\* delete and nothing submitted, or after the delete with its job submitted
\* (enqueued, or refused by an unreachable Redis).
C15_ForceDeletesThenEnqueues ==
    (q_pc = "done" /\ q_req.force /\ q_req.package # "") =>
        \/ (q_submit = "none" /\ q_outcome = "ExternalServiceError")
        \/ (q_submit \in {"True", "False"} /\ q_lookup = "none")

\* C16: a query with neither a package nor a CVE id ends with
\* InvalidInputError and has done nothing else: no cache read, no lookup, no
\* delete, no submit, no poll, whatever the force flag.
C16_InvalidInputRejectedFirst ==
    (q_pc # "idle" /\ q_req.package = "" /\ q_req.cve_id = 0) =>
        /\ q_pc = "done"
        /\ q_outcome = "InvalidInputError"
        /\ q_submit = "none"
        /\ q_lookup = "none"
        /\ elapsed = 0
        /\ ~q_response.present

\* C16 witness: a forced query without package and CVE id was rejected
C16_Witness ==
    /\ q_pc = "done"
    /\ q_req = [package |-> "", cve_id |-> 0, force |-> TRUE]
    /\ q_outcome = "InvalidInputError"

\* C17: every job text the gateway pushed (source "web_query") has the
\* members package, version, ecosystem, force and source.
C17_JobCarriesEcosystem ==
    \A j \in DOMAIN enqueued :
        DictGet(enqueued[j].pairs, "source") = "web_query" =>
            \A key \in {"package", "version", "ecosystem", "force", "source"} :
                HasKey(enqueued[j].pairs, key)

\* C18: whichever stage's service call raised, the stage hands on a record
\* and the call of orchestrate_pipeline does not end with an exception.
C18_FallbackTotality ==
    o_raised # {} =>
        /\ o_pc # "raised"
        /\ o_pc \in {"persist_analysis", "append"} => o_analysis # NoAnalysis

\* C19: a returned result list has one item per mapped CVE id, in the
\* mapping's order, each with its EPSS, CVSS, cases and analysis parts.
C19_FullResultReturned ==
    o_pc = "returned" =>
        /\ Len(o_results) = Len(o_cves)
        /\ \A i \in DOMAIN o_results :
              /\ o_results[i].cve_id = o_cves[i]
              /\ o_results[i].epss # NoRecord
              /\ o_results[i].cvss # NoRecord
              /\ o_results[i].cases # NoRecord
              /\ o_results[i].analysis # NoAnalysis

\* the inputs of an analysis record are the records of the CVE id c
OwnInputs(analysis, c) ==
    /\ analysis.cve_id = c
    /\ analysis.epss.cve_id = c
    /\ analysis.cvss.cve_id = c
    /\ analysis.cases.cve_id = c
    /\ c \in DOMAIN o_epss => analysis.epss = o_epss[c]
    /\ c \in DOMAIN o_cvss => analysis.cvss = o_cvss[c]

\* C20: scores are fetched only for ids the finished mapping stage gave;
\* the analysis stage of a CVE starts with that CVE's threat output at
\* hand, and every analysis was called with its own CVE's EPSS record,
\* CVSS record and threat output.
C20_StageOrder ==
    /\ o_pc = "mapping" => o_epss = <<>> /\ o_cvss = <<>>
    /\ (DOMAIN o_epss) \cup (DOMAIN o_cvss) \subseteq Range(o_cves)
    /\ o_pc \in {"threat", "persist_threat"} => o_analysis = NoAnalysis
    /\ o_pc = "analysis" =>
          /\ o_threat # NoRecord
          /\ o_threat.cve_id = o_cves[o_index]
          /\ o_analysis = NoAnalysis
          /\ DOMAIN o_epss = Range(o_cves)
          /\ DOMAIN o_cvss = Range(o_cves)
    /\ o_analysis # NoAnalysis =>
          /\ OwnInputs(o_analysis, o_cves[o_index])
          /\ o_analysis.cases = o_threat
    /\ \A i \in DOMAIN o_results :
          OwnInputs(o_results[i].analysis, o_cves[i])

\* C20 witness: a call returned two items whose analyses came from the
\* analyzer service
C20_Witness ==
    /\ o_pc = "returned"
    /\ Len(o_results) = 2
    /\ \A i \in DOMAIN o_results : o_results[i].analysis.source = "service"

\* --------------------------------------------------- join and persistence
\* the states of a call after the gather of the scoring stages
AfterScoring ==
    {"persist_epss", "persist_cvss", "threat", "persist_threat", "analysis",
     "persist_analysis", "append"}

\* C21: the EPSS and the CVSS agent both work on the ids of the mapping
\* stage, and no later step of the call (persistence of the scores, threat
\* or analysis of any CVE) starts before both agents have returned a record,
\* live or fallback, for every id; until then no threat output, analysis or
\* result item exists.
C21_ScoringJoin ==
    /\ o_pc \in AfterScoring =>
          /\ e_pc = "done"
          /\ c_pc = "done"
          /\ Range(o_cves) \subseteq DOMAIN o_epss
          /\ Range(o_cves) \subseteq DOMAIN o_cvss
    /\ o_pc = "scoring" =>
          /\ o_threat = NoRecord
          /\ o_analysis = NoAnalysis
          /\ o_results = <<>>
          /\ o_index = 0
          /\ e_pc # "idle" => Range(e_missing) \cup DOMAIN e_cached.value = Range(o_cves)
          /\ c_pc # "idle" => Range(c_missing) \cup DOMAIN c_cached.value = Range(o_cves)

\* C21 witness: the threat stage of the first of two CVEs is about to start
\* after an EPSS fetch fell back and the CVSS fetches succeeded
C21_Witness ==
    /\ o_pc = "threat"
    /\ o_index = 1
    /\ Len(o_cves) = 2
    /\ "EPSS" \in o_raised
    /\ "CVSS" \notin o_raised
    /\ o_epss[2].source = "fallback"

\* C22: without a session no persistence step runs; with one, whatever a
\* persistence step, its commit or its rollback does, the call returns one
\* item per CVE id unless a stage itself failed.
C22_PersistenceOptional ==
    /\ ~o_session => o_error # "DBAPIError"
    /\ (o_pc \in {"returned", "raised"} /\ o_error \in {"none", "DBAPIError"}) =>
          /\ o_pc = "returned"
          /\ Len(o_results) = Len(o_cves)

\* ------------------------------------------------ progress, empty mapping
\* C23: a progress callback that raises never ends a call of
\* orchestrate_pipeline: no call is left with the callback's exception.
C23_ProgressNeverFails ==
    o_error # "CallbackError"

\* C24: a non-forced call whose mapping stage gave no id returns one item,
\* for the placeholder id, whose EPSS and CVSS records have source
\* "fallback".
C24_EmptyMappingPlaceholder ==
    (o_pc = "returned" /\ ~o_force /\ o_cves = fallback_cves) =>
        /\ Len(o_results) = 1
        /\ o_results[1].cve_id = fallback_cves[1]
        /\ o_results[1].epss.source = "fallback"
        /\ o_results[1].cvss.source = "fallback"

\* ---------------------------------------------------------- the stage cache
\* the CVE id whose threat or analysis stage is next
CurrentCve == o_cves[o_index]

\* the external calls of a stage among calls
CallsOf(stage, calls) == {call \in calls : call[1] = stage}

\* the cve_ids a mapping value stands for (agent_orchestrator.py:204-205)
OrPlaceholder(ids) == IF ids = <<>> THEN fallback_cves ELSE ids

C27_BatchFetchesMissing ==
    /\ (e_pc \in {"fetch", "done"} /\ ~o_force /\ e_cached.present) =>
          /\ e_missing = MissingIds(o_cves, e_cached.value)
          /\ CallsOf("EPSS", o_calls) \subseteq {<<"EPSS", c>> : c \in Range(e_missing)}
          /\ \A c \in DOMAIN e_cached.value :
                c \in DOMAIN o_epss /\ o_epss[c] = e_cached.value[c]
          /\ e_pc = "done" =>
                /\ CallsOf("EPSS", o_calls) = {<<"EPSS", c>> : c \in Range(e_missing)}
                /\ DOMAIN o_epss = DOMAIN e_cached.value \cup Range(e_missing)
                /\ cache.epss = [present |-> TRUE, value |-> o_epss]
    /\ (c_pc \in {"fetch", "done"} /\ ~o_force /\ c_cached.present) =>
          /\ c_missing = MissingIds(o_cves, c_cached.value)
          /\ CallsOf("CVSS", o_calls) \subseteq {<<"CVSS", c>> : c \in Range(c_missing)}
          /\ \A c \in DOMAIN c_cached.value :
                c \in DOMAIN o_cvss /\ o_cvss[c] = c_cached.value[c]
          /\ c_pc = "done" =>
                /\ CallsOf("CVSS", o_calls) = {<<"CVSS", c>> : c \in Range(c_missing)}
                /\ DOMAIN o_cvss = DOMAIN c_cached.value \cup Range(c_missing)
                /\ cache.cvss = [present |-> TRUE, value |-> o_cvss]

\* C27 witness: the cached EPSS map held id 1, ids 1 and 2 were requested,
\* only id 2 was fetched and the cached map holds both
C27_Witness ==
    /\ e_pc = "done"
    /\ ~o_force
    /\ o_cves = <<1, 2>>
    /\ DOMAIN e_cached.value = {1}
    /\ CallsOf("EPSS", o_calls) = {<<"EPSS", 2>>}
    /\ DOMAIN cache.epss.value = {1, 2}

\* C28: whenever a stage's service call raised, the fallback the stage then
\* hands on is in the cache under the stage's key once the stage is over
\* (working cache, force on or off).
C28_FallbackCached ==
    /\ ("MAPPING" \in o_raised /\ o_pc # "mapping") =>
          cache.mapping = [present |-> TRUE, value |-> fallback_cves]
    /\ e_pc = "done" =>
          \A c \in Range(e_missing) :
              /\ cache.epss.present
              /\ c \in DOMAIN cache.epss.value
              /\ cache.epss.value[c] = o_epss[c]
    /\ c_pc = "done" =>
          \A c \in Range(c_missing) :
              /\ cache.cvss.present
              /\ c \in DOMAIN cache.cvss.value
              /\ cache.cvss.value[c] = o_cvss[c]
    /\ (o_pc = "analysis" /\ <<"THREAT", CurrentCve>> \in o_calls) =>
          /\ CurrentCve \in DOMAIN cache.threat
          /\ cache.threat[CurrentCve] = o_threat
    /\ (o_index > 0 /\ o_pc \notin {"threat", "analysis"}
            /\ <<"ANALYZE", CurrentCve>> \in o_calls) =>
          /\ CurrentCve \in DOMAIN cache.analysis
          /\ o_pc = "append" => cache.analysis[CurrentCve].source = o_analysis.source

\* every record of the map before is in the map after, unchanged
KeepsRecords(before, after) ==
    \A c \in DOMAIN before : c \in DOMAIN after /\ after[c] = before[c]

\* C29: no step of a non-forced call removes or changes a cached record:
\* the mapping entry, every CVE's record in the cached EPSS and CVSS maps,
\* and every cached threat and analysis record stay as they are.
C29_CachedRecordKept ==
    [][~o_force =>
          /\ cache.mapping.present => cache'.mapping = cache.mapping
          /\ cache.epss.present =>
                cache'.epss.present /\ KeepsRecords(cache.epss.value, cache'.epss.value)
          /\ cache.cvss.present =>
                cache'.cvss.present /\ KeepsRecords(cache.cvss.value, cache'.cvss.value)
          /\ KeepsRecords(cache.threat, cache'.threat)
          /\ KeepsRecords(cache.analysis, cache'.analysis)]_vars

\* C29 witness: a non-forced EPSS stage whose fetch of id 2 fell back has
\* returned; the cached map still holds the service's record of id 1, next
\* to the fallback of id 2
C29_Witness ==
    /\ e_pc = "done"
    /\ ~o_force
    /\ "EPSS" \in o_raised
    /\ e_cached.present
    /\ DOMAIN cache.epss.value = {1, 2}
    /\ cache.epss.value[1].source = "service"
    /\ cache.epss.value[2].source = "fallback"

\* C30: a get or set that fails or times out leaves the cache disabled; a
\* disabled cache stays disabled, sends no request to the backend and keeps
\* every stored entry; a stage whose cache is disabled when it has run
\* made its external call as on a miss (a batch stage starts from an empty
\* map with every id missing); a step is always possible until the call
\* has ended, and the only exception that ends it is the one the analysis
\* fallback raises on a miss as well.
C30_CacheFailOpen ==
    /\ [](cache_failed => cache_disabled)
    /\ [][cache_disabled =>
             cache_disabled' /\ cache' = cache /\ o_backend' = o_backend]_vars
    /\ [][cache_disabled' =>
             /\ o_pc = "mapping" => <<"MAPPING", 0>> \in o_calls'
             /\ o_pc = "threat" => <<"THREAT", CurrentCve>> \in o_calls'
             /\ o_pc = "analysis" => <<"ANALYZE", CurrentCve>> \in o_calls'
             /\ e_pc = "idle" /\ e_pc' = "fetch" =>
                   ~e_cached'.present /\ o_epss' = <<>> /\ e_missing' = o_cves
             /\ c_pc = "idle" /\ c_pc' = "fetch" =>
                   ~c_cached'.present /\ o_cvss' = <<>> /\ c_missing' = o_cves]_vars
    /\ [](o_pc \notin {"idle", "returned", "raised"} => ENABLED NextFailOpen)
    /\ [](o_error # "none" => o_error = "ValidationError" /\ "ANALYZE" \in o_raised)

\* C30 witness: a non-forced call whose first get, of a stored mapping,
\* failed: the mapping service was called, no other request reached the
\* backend, and the call returned the results of both CVEs
C30_Witness ==
    /\ o_pc = "returned"
    /\ ~o_force
    /\ cache_failed
    /\ cache_disabled
    /\ cache.mapping.present
    /\ o_backend = {<<"get", "MAPPING", 0>>}
    /\ <<"MAPPING", 0>> \in o_calls
    /\ Len(o_results) = 2

\* the value json.dumps(value, default=_serialize) raises on
Unserializable(value) == DumpsRaises(value) # "none"

\* C31: when set has tried to serialise a value that cannot be serialised,
\* it has returned without an exception, sent no write to Redis, left the
\* entry of the key and the _disabled flag as they were.
C31_UnserializableSetIgnored ==
    (/\ ac_pc \in {"returned", "raised"}
     /\ "dumps" \in ac_trace
     /\ Unserializable(ac_value)) =>
        /\ ac_pc = "returned"
        /\ ac_error = "none"
        /\ "redis_set" \notin ac_trace
        /\ ac_entry = ac_before.entry
        /\ ac_disabled = ac_before.disabled

\* the pattern ^CVE-\d{4}-\d{4,}$ as re.match reads it
MatchesCvePattern(text) ==
    /\ text.prefix = "CVE-"
    /\ text.year = 4
    /\ text.number >= 4
    /\ text.tail \in {"", "\n"}

\* C32: a fetch_score of either service that was called with an identifier
\* the CVE pattern does not match has called no external client, and has
\* returned a record without a fetched score.
C32_InvalidIdNoRequest ==
    (f_service # "none" /\ f_pc # "validate" /\ ~MatchesCvePattern(f_id)) =>
        /\ f_requests = <<>>
        /\ f_pc = "returned"
        /\ f_result.source = "none"
        /\ f_result.score \in {"0.0", "none"}

\* C32 witness: the CVSS service, external calls allowed, has rejected an
\* identifier that differs from a CVE id only in the text after a newline
C32_Witness ==
    /\ f_pc = "returned"
    /\ f_service = "CVSS"
    /\ f_allow
    /\ f_id = [prefix |-> "CVE-", year |-> 4, number |-> 4, digits |-> "ascii",
               tail |-> "\n;"]
    /\ f_requests = <<>>

\* the last element of a non-empty sequence
Last(seq) == seq[Len(seq)]

\* C34: in a fetch_score of the CVSS service with external calls allowed
\* and a valid identifier, the first request goes to NVD and at most
\* max_retries do; a score from NVD is returned with source "NVD" and
\* without a Perplexity call; Perplexity is called at most once, as the
\* last request, and only after an NVD request failed with 404 or the
\* max_retries-th NVD request failed; the call never raises.
C34_NvdFirst ==
    (f_service = "CVSS" /\ f_allow /\ validate_cve_id(f_id)) =>
        /\ f_pc # "raised"
        /\ Len(f_nvd) <= cvss_max_retries
        /\ f_pc \in {"perplexity", "returned"} => f_requests # <<>> /\ f_requests[1] = "NVD"
        /\ \A i \in DOMAIN f_requests :
              f_requests[i] = "Perplexity" => i = Len(f_requests) /\ i > 1
        /\ (f_pc = "perplexity" \/ (f_requests # <<>> /\ Last(f_requests) = "Perplexity")) =>
              /\ Last(f_nvd) # "score"
              /\ Last(f_nvd) = "404" \/ Len(f_nvd) = cvss_max_retries
        /\ (f_pc = "returned" /\ Last(f_nvd) = "score") =>
              /\ f_result = [source |-> "NVD", score |-> "baseScore"]
              /\ \A i \in DOMAIN f_requests : f_requests[i] = "NVD"
        /\ (f_pc = "returned" /\ Last(f_nvd) # "score") =>
              f_result.source \in {"Perplexity", "not_found_perplexity"}

\* C34 witness: NVD timed out, then answered 403 on the second and last
\* attempt; Perplexity was asked once and its score was returned
C34_Witness ==
    /\ f_pc = "returned"
    /\ f_service = "CVSS"
    /\ f_nvd = <<"TimeoutException", "403">>
    /\ f_requests = <<"NVD", "NVD", "Perplexity">>
    /\ f_result.source = "Perplexity"

\* a failure the policy calls transient
Transient(outcome) == outcome \in {"500", "ConnectError", "ReadTimeout"}

\* C33: a call through the retry policy makes at most 3 attempts; every
\* attempt but the first follows a transient failure; a call whose first
\* request ends with status 400 ends after that attempt; a call whose
\* requests end with 500, 500, 200 returns on the third attempt.  This
\* holds for a plain wrapped function and for GPT5Client.chat.
C33_RetryPolicy ==
    /\ r_attempts <= stop_after_attempt
    /\ \A i \in 1..r_attempts : i > 1 => Transient(r_script[i - 1])
    /\ (r_pc \in {"returned", "raised"} /\ r_script[1] = "400") =>
          r_attempts = 1 /\ r_pc = "raised"
    /\ (r_pc \in {"returned", "raised"} /\ r_script = <<"500", "500", "200">>) =>
          r_attempts = 3 /\ r_pc = "returned"

\* C35: the analysis of every item appended to the pipeline results has a
\* risk_level that is Low, Medium or High.
C35_RiskLevelValid ==
    an_pc = "returned" => an_item.risk_level \in {"Low", "Medium", "High"}

\* a response of the finished query that came from the response cache: no
\* lookup was made and no job was submitted
ServedFromCache ==
    /\ q_pc = "done"
    /\ q_outcome = "response"
    /\ q_lookup = "none"
    /\ q_submit = "none"

\* a row of the response whose scores or analysis predate a forced delete
StaleRow(row) ==
    \/ row.epss /\ row.cve_id \in q_stale.epss
    \/ row.cvss /\ row.cve_id \in q_stale.cvss
    \/ row.analysis /\ row.cve_id \in q_stale.analysis

\* C36: once a forced request for a package has done its delete, no query
\* for that package returns what was stored or cached before the delete:
\* neither the cached response of its key nor score and analysis rows that
\* were persisted before it.
C36_NoStaleAfterForce ==
    (q_pc = "done" /\ q_outcome = "response" /\ q_req.package # "") =>
        /\ ServedFromCache => CacheKey(q_req) \notin q_stale.cache
        /\ ~ServedFromCache => \A row \in q_response.rows : ~StaleRow(row)

\* C37: two runs of a batch stage for the same package and version that
\* were in progress at the same time, with different non-empty id sets and
\* neither of them forced, lose nothing: once both have returned, the map
\* under the cache key has every id that either run stored.
C37_NoLostEntries ==
    (/\ \A r \in BatchRuns : bt_pc[r] = "returned" /\ ~bt_force[r] /\ bt_cve_list[r] # {}
     /\ bt_overlap
     /\ bt_cve_list[1] # bt_cve_list[2])
        => \A r \in BatchRuns : bt_stored[r] \subseteq bt_cache.ids

\* the input entry an entry of the result was made from
MadeFrom(entry, item) ==
    /\ entry.cve_id = item.cve_id
    /\ entry.cvss_score = item.cvss_score
    /\ entry.risk_score = (IF item.risk_score = NoneScore THEN 0 ELSE item.risk_score)

C39_CreatedOnce ==
    /\ gr_epoch.invoked <= 1
    /\ Cardinality(gr_epoch.handed) <= 1

\* C39 (amended): between two resets by close_redis at most one from_url
\* call returns a connection, every caller that get_redis returns to
\* receives that connection, and from_url is invoked again only after a
\* from_url call that raised.
C39_OneConnection ==
    /\ Cardinality(gr_epoch.created) <= 1
    /\ gr_epoch.handed \subseteq gr_epoch.created
    /\ gr_epoch.created # {} => gr_redis_pool \in gr_epoch.created
    /\ \A c \in Coroutines :
         gr_pc[c] = "from_url" => gr_epoch.created = {} /\ gr_lock = c

\* two coroutines that both found no connection have both received the
\* one connection made by the only from_url call
C39_Witness ==
    \E c, d \in Coroutines :
        /\ c # d
        /\ gr_pc[c] = "returned" /\ gr_pc[d] = "returned"
        /\ gr_saw_none[c] /\ gr_saw_none[d]
        /\ gr_received[c] # 0 /\ gr_received[c] = gr_received[d]
        /\ gr_epoch.invoked = 1

\* C40: get_redis_client returns a client only if a ping on that client has
\* succeeded; after an initialization whose ping failed, later calls do not
\* hand out the client that was not verified (looked at when no ping is
\* being awaited).
C40_OnlyPingedClient ==
    (\A d \in Callers : gc_pc[d] # "ping") =>
        \A c \in Callers :
            (gc_pc[c] = "returned" /\ gc_returned[c] # 0) => gc_returned[c] \in gc_pinged

====
